---- MODULE Spec2Model ----
(***************************************************************************)
(* Delivery pipeline of crm-relay: the relay server's webhook ingestion    *)
(* (HandleWebhook -> AddWebhook), the Redis stream with its consumer group *)
(* and dead-letter stream, and the relay client's consumer loop            *)
(* (Start / consumeMessages / processMessage / handleForwardError) with    *)
(* the dead-letter replay handler.                                         *)
(*                                                                         *)
(* Stream entry ids are modelled by the position of the entry in the       *)
(* stream (XADD ids are totally ordered and the main stream is never       *)
(* trimmed); the webhook's uuid is modelled by the number of the request   *)
(* that created it.                                                        *)
(***************************************************************************)
EXTENDS Integers, Sequences, FiniteSets, TLC

\* ---- bounds of the exploration ----
MaxReq == 2            \* webhook requests submitted to the server
MaxReplays == 1        \* dead-letter replay requests submitted to the client
MaxStream == 2         \* stream entries appended while the client runs
MaxFailures == 3       \* failed attempts of one message in the backoff computation
MaxValueLen == 2       \* bytes of a header value in the serialization
MaxBodyLen == 3        \* bytes of a payload in the serialization
MaxWait == 4           \* time units a suspended call of the consumer may last

\* ---- program constants ----
ReadCount == 10        \* ReadMessages(ctx, 10, 5*time.Second)
DefaultMaxRetries == 3 \* getEnvAsInt("MAX_RETRIES", 3)
DefaultRetryDelay == 1000 \* getEnvAsInt("RETRY_DELAY", 1000)
DefaultMessageTTL == 86400 \* getEnvAsInt("MESSAGE_TTL", 86400)
Millisecond == 1000000 \* time.Millisecond, in nanoseconds
StatusOK == 200
StatusAccepted == 202
StatusBadRequest == 400
StatusUnauthorized == 401
StatusMethodNotAllowed == 405
StatusInternalServerError == 500

VARIABLES
    stream,        \* main stream (XADD order); entry = serialized RelayMessage
    lastDelivered, \* consumer group's last-delivered id
    pending,       \* consumer group's pending entries list (ids)
    dlq,           \* dead-letter stream: set of entries [id, original_id, data]
    dlqSeq,        \* number of entries ever added to the dead-letter stream
    apiKeys,       \* stored API keys: id -> [key, platform, active]
    nextReq,       \* number of the next webhook request
    lastReq,       \* the most recent webhook request
    appended,      \* request -> stream id AddWebhook returned to its handler (0: none)
    resp,          \* request -> response written by HandleWebhook (status 0: none yet)
    received,      \* server metrics.WebhooksReceived
    maxRetries,    \* client config.MaxRetries
    target,        \* the local endpoint: "up" answers 2xx, "down" fails the forward
    running,       \* Consumer.running
    cancelled,     \* the context handed to Consumer.Start is cancelled
    stopCalled,    \* main has called consumer.Stop()
    cpc,           \* position of the consumer goroutine
    batch,         \* messages of the current batch not yet processed
    cur,           \* stream id of the message in processMessage (0: none)
    curRetry,      \* relayMessage.RetryCount of the in-memory message
    processed,     \* consumer metrics.WebhooksProcessed
    retried,       \* consumer metrics.WebhooksRetried
    failed,        \* consumer metrics.WebhooksFailed
    fwdOk,         \* stream id -> number of successful forward attempts
    fwdFail,       \* stream id -> number of failed forward attempts
    ackedOk,       \* stream ids acknowledged after a successful forward
    dlqWrites,     \* stream id -> number of dead-letter entries written for it
    inflight,      \* stream ids with a Forward call that has not returned yet
    replays,       \* HandleReplayDLQMessage calls, in flight and answered
    replayCount,   \* replay requests submitted so far
    callIn,        \* input of the component call examined on its own ("none": no call)
    callPc,        \* position of that call
    callOut        \* what the call has produced so far

serverVars == <<apiKeys, nextReq, lastReq, appended, resp, received>>
logVars == <<stream, lastDelivered, pending, dlq, dlqSeq>>
consumerVars == <<running, cancelled, stopCalled, cpc, batch, cur, curRetry,
                  processed, retried, failed, fwdOk, fwdFail, ackedOk>>
histVars == <<dlqWrites, inflight>>
replayVars == <<replays, replayCount>>
callVars == <<callIn, callPc, callOut>>
pipelineVars == <<serverVars, logVars, consumerVars, histVars, replayVars,
                  maxRetries, target>>
vars == <<stream, lastDelivered, pending, dlq, dlqSeq, apiKeys, nextReq,
          lastReq, appended, resp, received, maxRetries, target, running,
          cancelled, stopCalled, cpc, batch, cur, curRetry, processed,
          retried, failed, fwdOk, fwdFail, ackedOk, dlqWrites, inflight,
          replays, replayCount, callIn, callPc, callOut>>

MaxLog == MaxReq + MaxReplays
LogIds == 1..MaxLog
ReqIds == 1..MaxReq

\* ---- request inputs ----
Methods == {"POST", "GET"}
Paths == {"/webhook", "/webhook/meta", "/webhook/shop"}
PresentedKeys == {"", "static-key", "key-meta", "bogus"}
Bodies == {"", "payload", "unreadable"}

\* MAX_RETRIES: no retry, one retry, the default
RetryLimits == {0, 1, DefaultMaxRetries}

ConfigAPIKey == "static-key"
NoKey == [key |-> "", platform |-> "", active |-> FALSE, found |-> FALSE]

\* strings.TrimPrefix(r.URL.Path, "/webhook/") when the path has that prefix
PlatformOf(path) ==
    CASE path = "/webhook/meta" -> "meta"
      [] path = "/webhook/shop" -> "shop"
      [] OTHER -> ""

\* GetAPIKeyByValue: lookup by key value, then the record by id
GetAPIKeyByValue(keys, k, err) ==
    IF err \/ ~(\E id \in DOMAIN keys : keys[id].key = k)
    THEN NoKey
    ELSE LET id == CHOOSE i \in DOMAIN keys : keys[i].key = k
         IN  [key |-> keys[id].key, platform |-> keys[id].platform,
              active |-> keys[id].active, found |-> TRUE]

\* Variant: the empty-body check is missing
ValidateStatus_NoBodyCheck(keys, m, p, k, b, lookupErr) ==
    LET platform == PlatformOf(p)
        storedKey == GetAPIKeyByValue(keys, k, lookupErr)
    IN  IF m # "POST" THEN StatusMethodNotAllowed
        ELSE IF k = "" THEN StatusUnauthorized
        ELSE IF platform # "" /\ (~storedKey.found \/ ~storedKey.active
                                    \/ storedKey.platform # platform)
             THEN StatusUnauthorized
        ELSE IF platform = "" /\ k # ConfigAPIKey THEN StatusUnauthorized
        ELSE IF b = "unreadable" THEN StatusBadRequest
        ELSE 0

\* Variant: storedKey.IsActive is not checked
ValidateStatus_NoActiveCheck(keys, m, p, k, b, lookupErr) ==
    LET platform == PlatformOf(p)
        storedKey == GetAPIKeyByValue(keys, k, lookupErr)
    IN  IF m # "POST" THEN StatusMethodNotAllowed
        ELSE IF k = "" THEN StatusUnauthorized
        ELSE IF platform # "" /\ (~storedKey.found
                                    \/ storedKey.platform # platform)
             THEN StatusUnauthorized
        ELSE IF platform = "" /\ k # ConfigAPIKey THEN StatusUnauthorized
        ELSE IF b = "unreadable" THEN StatusBadRequest
        ELSE IF b = "" THEN StatusBadRequest
        ELSE 0

\* The rejections of HandleWebhook before the append, in the order of the
\* code; 0 when the request passes every check.
ValidateStatus(keys, m, p, k, b, lookupErr) ==
    LET platform == PlatformOf(p)
        storedKey == GetAPIKeyByValue(keys, k, lookupErr)
    IN  IF m # "POST" THEN StatusMethodNotAllowed
        ELSE IF k = "" THEN StatusUnauthorized
        ELSE IF platform # "" /\ (~storedKey.found \/ ~storedKey.active
                                    \/ storedKey.platform # platform)
             THEN StatusUnauthorized
        ELSE IF platform = "" /\ k # ConfigAPIKey THEN StatusUnauthorized
        ELSE IF b = "unreadable" THEN StatusBadRequest
        ELSE IF b = "" THEN StatusBadRequest
        ELSE 0

\* AddWebhook: the RelayMessage built for a webhook and appended by XADD
RelayMessage(webhookId) == [mid |-> webhookId, retry |-> 0]

\* Variant: the XADD is issued twice (a resend after a timeout)
AddWebhook_Twice(s, webhookId) ==
    Append(Append(s, RelayMessage(webhookId)), RelayMessage(webhookId))

AddWebhook(s, webhookId) == Append(s, RelayMessage(webhookId))

\* An entry whose "data" field is not the JSON of a Relay Message, as any
\* other client of the Redis server can append; ParseMessage fails on it
Unparseable == [mid |-> 0, retry |-> 0]
ParseFails(entry) == entry.mid = 0

\* Variant: atomic.StoreInt64 in place of atomic.AddInt64
CountReceived_Store(n) == 1

\* atomic.AddInt64(&h.metrics.WebhooksReceived, 1)
CountReceived(n) == n + 1

NoResp == [status |-> 0, message_id |-> 0, webhook_id |-> 0]
Reject(st) == [status |-> st, message_id |-> 0, webhook_id |-> 0]

PipelineInit ==
    /\ stream = <<>>
    /\ lastDelivered = 0
    /\ pending = {}
    /\ dlq = {}
    /\ dlqSeq = 0
    /\ apiKeys = [id \in {"id-meta"} |->
                    [key |-> "key-meta", platform |-> "meta", active |-> TRUE]]
    /\ nextReq = 1
    /\ lastReq = [method |-> "POST", path |-> "/webhook", key |-> "", body |-> ""]
    /\ appended = [r \in ReqIds |-> 0]
    /\ resp = [r \in ReqIds |-> NoResp]
    /\ received = 0
    /\ maxRetries \in RetryLimits
    /\ target \in {"up", "down"}
    /\ running = FALSE
    /\ cancelled = FALSE
    /\ stopCalled = FALSE
    /\ cpc = "init"
    /\ batch = <<>>
    /\ cur = 0
    /\ curRetry = 0
    /\ processed = 0
    /\ retried = 0
    /\ failed = 0
    /\ fwdOk = [i \in LogIds |-> 0]
    /\ fwdFail = [i \in LogIds |-> 0]
    /\ ackedOk = {}
    /\ dlqWrites = [i \in LogIds |-> 0]
    /\ inflight = {}
    /\ replays = {}
    /\ replayCount = 0

\* No component call is examined on its own
NoCall ==
    /\ callIn = "none"
    /\ callPc = "none"
    /\ callOut = "none"

Init == PipelineInit /\ NoCall

\* ---------------------------------------------------------------------
\* Relay server
\* ---------------------------------------------------------------------

\* HandleWebhook up to and including AddWebhook: the checks, then the XADD.
\* A rejected request and a failed append are answered at once.
HandleWebhookBegin(m, p, k, b, lookupErr, addErr) ==
    /\ nextReq <= MaxReq
    /\ LET rid == nextReq
           st == ValidateStatus(apiKeys, m, p, k, b, lookupErr)
       IN  /\ nextReq' = nextReq + 1
           /\ lastReq' = [method |-> m, path |-> p, key |-> k, body |-> b]
           /\ IF st # 0
              THEN /\ resp' = [resp EXCEPT ![rid] = Reject(st)]
                   /\ UNCHANGED <<stream, appended>>
              ELSE IF addErr
              THEN /\ resp' = [resp EXCEPT ![rid] = Reject(StatusInternalServerError)]
                   /\ UNCHANGED <<stream, appended>>
              ELSE /\ stream' = AddWebhook(stream, rid)
                   /\ appended' = [appended EXCEPT ![rid] = Len(stream')]
                   /\ UNCHANGED resp
    /\ UNCHANGED <<lastDelivered, pending, dlq, dlqSeq, apiKeys, received,
                   maxRetries, target>>
    /\ UNCHANGED consumerVars
    /\ UNCHANGED replayVars
    /\ UNCHANGED histVars
    /\ UNCHANGED callVars

\* HandleWebhook after AddWebhook returned an id: metrics, then the 202.
HandleWebhookRespond(rid) ==
    /\ appended[rid] # 0
    /\ resp[rid].status = 0
    /\ received' = CountReceived(received)
    /\ resp' = [resp EXCEPT ![rid] = [status |-> StatusAccepted,
                                      message_id |-> appended[rid],
                                      webhook_id |-> rid]]
    /\ UNCHANGED <<apiKeys, nextReq, lastReq, appended, maxRetries, target>>
    /\ UNCHANGED logVars
    /\ UNCHANGED consumerVars
    /\ UNCHANGED replayVars
    /\ UNCHANGED histVars
    /\ UNCHANGED callVars

\* HandleUpdateAPIKey with is_active set
HandleUpdateAPIKey(id, active) ==
    /\ id \in DOMAIN apiKeys
    /\ apiKeys[id].active # active
    /\ apiKeys' = [apiKeys EXCEPT ![id].active = active]
    /\ UNCHANGED <<nextReq, lastReq, appended, resp, received, maxRetries, target>>
    /\ UNCHANGED logVars
    /\ UNCHANGED consumerVars
    /\ UNCHANGED replayVars
    /\ UNCHANGED histVars
    /\ UNCHANGED callVars

\* ---------------------------------------------------------------------
\* Another client of the Redis server
\* ---------------------------------------------------------------------
\* XADD to the main stream of an entry that is not a serialized Relay Message
ForeignAdd ==
    /\ Len(stream) < MaxStream
    /\ stream' = Append(stream, Unparseable)
    /\ UNCHANGED <<lastDelivered, pending, dlq, dlqSeq>>
    /\ UNCHANGED <<maxRetries, target>>
    /\ UNCHANGED serverVars
    /\ UNCHANGED consumerVars
    /\ UNCHANGED replayVars
    /\ UNCHANGED histVars
    /\ UNCHANGED callVars

\* ---------------------------------------------------------------------
\* The local endpoint
\* ---------------------------------------------------------------------
TargetFails ==
    /\ target = "up"
    /\ target' = "down"
    /\ UNCHANGED <<maxRetries>>
    /\ UNCHANGED serverVars
    /\ UNCHANGED logVars
    /\ UNCHANGED consumerVars
    /\ UNCHANGED replayVars
    /\ UNCHANGED histVars
    /\ UNCHANGED callVars

TargetRecovers ==
    /\ target = "down"
    /\ target' = "up"
    /\ UNCHANGED <<maxRetries>>
    /\ UNCHANGED serverVars
    /\ UNCHANGED logVars
    /\ UNCHANGED consumerVars
    /\ UNCHANGED replayVars
    /\ UNCHANGED histVars
    /\ UNCHANGED callVars

\* ---------------------------------------------------------------------
\* Redis stream primitives used by the client
\* ---------------------------------------------------------------------
Min(a, b) == IF a < b THEN a ELSE b

\* Variant: the group is read from id "0", which hands out the entries from
\* the start of the stream again
NewMessages_FromStart(s, last, count) ==
    [j \in 1..Min(Len(s), count) |-> j]

\* Variant: the first entry after the last-delivered id is skipped
NewMessages_SkipFirst(s, last, count) ==
    [j \in 1..(Min(Len(s), last + count) - last - 1) |-> last + j + 1]

\* XREADGROUP ... STREAMS <stream> ">" COUNT count: the ids never delivered
\* to the group so far, oldest first, at most count of them
NewMessages(s, last, count) ==
    [j \in 1..(Min(Len(s), last + count) - last) |-> last + j]

SeqToSet(q) == {q[j] : j \in 1..Len(q)}

\* resp.StatusCode in 200..299 and no transport error; a cancelled context
\* fails the request
ForwardSucceeds(t, ctxDone) == t = "up" /\ ~ctxDone

\* handleForwardError: "if relayMessage.RetryCount >= c.config.MaxRetries"
\* evaluated after the increment
MaxRetriesExceeded(retryCount, max) == retryCount >= max

\* ---------------------------------------------------------------------
\* Relay client: Consumer
\* ---------------------------------------------------------------------
ConsumerStart ==
    /\ cpc = "init"
    /\ running' = TRUE
    /\ cpc' = "loop"
    /\ UNCHANGED <<cancelled, stopCalled, batch, cur, curRetry, processed,
                   retried, failed, fwdOk, fwdFail, ackedOk>>
    /\ UNCHANGED <<maxRetries, target>>
    /\ UNCHANGED serverVars
    /\ UNCHANGED logVars
    /\ UNCHANGED replayVars
    /\ UNCHANGED histVars
    /\ UNCHANGED callVars

\* Variant: "for { c.consumeMessages(ctx) }", the loop tests neither the
\* running flag nor the context
ConsumerLoop_Forever ==
    /\ cpc = "loop"
    /\ cpc' = "reading"
    /\ UNCHANGED <<running, cancelled, stopCalled, batch, cur, curRetry,
                   processed, retried, failed, fwdOk, fwdFail, ackedOk>>
    /\ UNCHANGED <<maxRetries, target>>
    /\ UNCHANGED serverVars
    /\ UNCHANGED logVars
    /\ UNCHANGED replayVars
    /\ UNCHANGED histVars
    /\ UNCHANGED callVars

\* Start: "for c.running.Load() { select { case <-ctx.Done(): return ..."
ConsumerLoop ==
    /\ cpc = "loop"
    /\ cpc' = IF ~running \/ cancelled THEN "exited" ELSE "reading"
    /\ UNCHANGED <<running, cancelled, stopCalled, batch, cur, curRetry,
                   processed, retried, failed, fwdOk, fwdFail, ackedOk>>
    /\ UNCHANGED <<maxRetries, target>>
    /\ UNCHANGED serverVars
    /\ UNCHANGED logVars
    /\ UNCHANGED replayVars
    /\ UNCHANGED histVars
    /\ UNCHANGED callVars

\* consumeMessages: the blocking ReadMessages call and its three outcomes
ConsumerRead(err) ==
    /\ cpc = "reading"
    /\ LET msgs == NewMessages(stream, lastDelivered, ReadCount)
       IN  IF err
           THEN /\ cpc' = "sleep_read"
                /\ UNCHANGED <<lastDelivered, pending, batch>>
           ELSE IF Len(msgs) = 0
           THEN /\ cpc' = "loop"
                /\ UNCHANGED <<lastDelivered, pending, batch>>
           ELSE /\ cpc' = "batch"
                /\ lastDelivered' = msgs[Len(msgs)]
                /\ pending' = pending \cup SeqToSet(msgs)
                /\ batch' = msgs
    /\ UNCHANGED <<stream, dlq, dlqSeq>>
    /\ UNCHANGED <<running, cancelled, stopCalled, cur, curRetry, processed,
                   retried, failed, fwdOk, fwdFail, ackedOk>>
    /\ UNCHANGED <<maxRetries, target>>
    /\ UNCHANGED serverVars
    /\ UNCHANGED replayVars
    /\ UNCHANGED histVars
    /\ UNCHANGED callVars

\* Variant: the consumer gives up after a failed read
ConsumerReadBackoff_Exit ==
    /\ cpc = "sleep_read"
    /\ cpc' = "exited"
    /\ UNCHANGED <<running, cancelled, stopCalled, batch, cur, curRetry,
                   processed, retried, failed, fwdOk, fwdFail, ackedOk>>
    /\ UNCHANGED <<maxRetries, target>>
    /\ UNCHANGED serverVars
    /\ UNCHANGED logVars
    /\ UNCHANGED replayVars
    /\ UNCHANGED histVars
    /\ UNCHANGED callVars

\* consumeMessages: time.Sleep(5 * time.Second) after a failed read
ConsumerReadBackoff ==
    /\ cpc = "sleep_read"
    /\ cpc' = "loop"
    /\ UNCHANGED <<running, cancelled, stopCalled, batch, cur, curRetry,
                   processed, retried, failed, fwdOk, fwdFail, ackedOk>>
    /\ UNCHANGED <<maxRetries, target>>
    /\ UNCHANGED serverVars
    /\ UNCHANGED logVars
    /\ UNCHANGED replayVars
    /\ UNCHANGED histVars
    /\ UNCHANGED callVars

\* Variant: the range loop takes the messages of a batch from its end
ConsumerNextMessage_LastFirst ==
    /\ cpc = "batch"
    /\ IF Len(batch) = 0
       THEN /\ cpc' = "loop"
            /\ UNCHANGED <<batch, cur, curRetry, inflight>>
       ELSE /\ cpc' = "forwarding"
            /\ cur' = batch[Len(batch)]
            /\ batch' = SubSeq(batch, 1, Len(batch) - 1)
            /\ curRetry' = stream[batch[Len(batch)]].retry
            /\ inflight' = inflight \cup {batch[Len(batch)]}
    /\ UNCHANGED <<running, cancelled, stopCalled, processed, retried,
                   failed, fwdOk, fwdFail, ackedOk>>
    /\ UNCHANGED <<maxRetries, target>>
    /\ UNCHANGED serverVars
    /\ UNCHANGED logVars
    /\ UNCHANGED replayVars
    /\ UNCHANGED dlqWrites
    /\ UNCHANGED callVars

\* Variant: "go c.processMessage(ctx, message)": the loop hands the message
\* to a goroutine of its own and turns to the next one at once
ConsumerNextMessage_Async ==
    /\ cpc = "batch"
    /\ IF Len(batch) = 0
       THEN /\ cpc' = "loop"
            /\ UNCHANGED <<batch, inflight>>
       ELSE /\ cpc' = "batch"
            /\ batch' = Tail(batch)
            /\ inflight' = inflight \cup {Head(batch)}
    /\ UNCHANGED <<running, cancelled, stopCalled, cur, curRetry, processed,
                   retried, failed, fwdOk, fwdFail, ackedOk>>
    /\ UNCHANGED <<maxRetries, target>>
    /\ UNCHANGED serverVars
    /\ UNCHANGED logVars
    /\ UNCHANGED replayVars
    /\ UNCHANGED dlqWrites
    /\ UNCHANGED callVars

\* Variant: a message that cannot be parsed ends the batch
ConsumerNextMessage_StopOnParseError ==
    /\ cpc = "batch"
    /\ IF Len(batch) = 0 \/ ~running \/ ParseFails(stream[Head(batch)])
       THEN /\ cpc' = "loop"
            /\ batch' = <<>>
            /\ UNCHANGED <<cur, curRetry, inflight>>
       ELSE /\ cpc' = "forwarding"
            /\ cur' = Head(batch)
            /\ batch' = Tail(batch)
            /\ curRetry' = stream[Head(batch)].retry
            /\ inflight' = inflight \cup {Head(batch)}
    /\ UNCHANGED <<running, cancelled, stopCalled, processed, retried,
                   failed, fwdOk, fwdFail, ackedOk>>
    /\ UNCHANGED <<maxRetries, target>>
    /\ UNCHANGED serverVars
    /\ UNCHANGED logVars
    /\ UNCHANGED replayVars
    /\ UNCHANGED dlqWrites
    /\ UNCHANGED callVars

\* consumeMessages: one turn of "for _, message := range messages"; the
\* message is parsed and handed to the forwarder, or skipped when
\* ParseMessage fails
ConsumerNextMessage ==
    /\ cpc = "batch"
    /\ IF Len(batch) = 0
       THEN /\ cpc' = "loop"
            /\ UNCHANGED <<batch, cur, curRetry, inflight>>
       ELSE IF ~running
       THEN /\ cpc' = "loop"
            /\ batch' = <<>>
            /\ UNCHANGED <<cur, curRetry, inflight>>
       ELSE IF ParseFails(stream[Head(batch)])
       THEN /\ cpc' = "batch"
            /\ batch' = Tail(batch)
            /\ UNCHANGED <<cur, curRetry, inflight>>
       ELSE /\ cpc' = "forwarding"
            /\ cur' = Head(batch)
            /\ batch' = Tail(batch)
            /\ curRetry' = stream[Head(batch)].retry
            /\ inflight' = inflight \cup {Head(batch)}
    /\ UNCHANGED <<running, cancelled, stopCalled, processed, retried,
                   failed, fwdOk, fwdFail, ackedOk>>
    /\ UNCHANGED <<maxRetries, target>>
    /\ UNCHANGED serverVars
    /\ UNCHANGED logVars
    /\ UNCHANGED replayVars
    /\ UNCHANGED dlqWrites
    /\ UNCHANGED callVars

\* processMessage: Forward returns; on error handleForwardError increments
\* the in-memory retry count and chooses between the dead-letter queue and
\* the backoff sleep
ConsumerForwardDone ==
    /\ cpc = "forwarding"
    /\ IF ForwardSucceeds(target, cancelled)
       THEN /\ fwdOk' = [fwdOk EXCEPT ![cur] = @ + 1]
            /\ cpc' = "acking"
            /\ UNCHANGED <<fwdFail, curRetry, retried, failed>>
       ELSE /\ fwdFail' = [fwdFail EXCEPT ![cur] = @ + 1]
            /\ curRetry' = curRetry + 1
            /\ retried' = retried + 1
            /\ IF MaxRetriesExceeded(curRetry + 1, maxRetries)
               THEN /\ failed' = failed + 1
                    /\ cpc' = "dlq_add"
               ELSE /\ cpc' = "sleep_retry"
                    /\ UNCHANGED failed
            /\ UNCHANGED fwdOk
    /\ inflight' = inflight \ {cur}
    /\ UNCHANGED <<running, cancelled, stopCalled, batch, cur, processed, ackedOk>>
    /\ UNCHANGED <<maxRetries, target>>
    /\ UNCHANGED serverVars
    /\ UNCHANGED logVars
    /\ UNCHANGED replayVars
    /\ UNCHANGED dlqWrites
    /\ UNCHANGED callVars

\* Variant: the metric is updated before the result of the acknowledgement
\* is looked at
ConsumerAck_CountFirst(err) ==
    /\ cpc = "acking"
    /\ processed' = processed + 1
    /\ IF err
       THEN UNCHANGED <<pending, ackedOk>>
       ELSE /\ pending' = pending \ {cur}
            /\ ackedOk' = ackedOk \cup {cur}
    /\ cpc' = "batch"
    /\ cur' = 0
    /\ UNCHANGED <<stream, lastDelivered, dlq, dlqSeq>>
    /\ UNCHANGED <<running, cancelled, stopCalled, batch, curRetry, retried,
                   failed, fwdOk, fwdFail>>
    /\ UNCHANGED <<maxRetries, target>>
    /\ UNCHANGED serverVars
    /\ UNCHANGED replayVars
    /\ UNCHANGED histVars
    /\ UNCHANGED callVars

\* processMessage: AcknowledgeMessage after a successful forward
ConsumerAck(err) ==
    /\ cpc = "acking"
    /\ IF err
       THEN UNCHANGED <<pending, processed, ackedOk>>
       ELSE /\ pending' = pending \ {cur}
            /\ processed' = processed + 1
            /\ ackedOk' = ackedOk \cup {cur}
    /\ cpc' = "batch"
    /\ cur' = 0
    /\ UNCHANGED <<stream, lastDelivered, dlq, dlqSeq>>
    /\ UNCHANGED <<running, cancelled, stopCalled, batch, curRetry, retried,
                   failed, fwdOk, fwdFail>>
    /\ UNCHANGED <<maxRetries, target>>
    /\ UNCHANGED serverVars
    /\ UNCHANGED replayVars
    /\ UNCHANGED histVars
    /\ UNCHANGED callVars

\* Variant: the original entry is acknowledged even when the XADD to the
\* dead-letter stream has failed
ConsumerDLQAdd_AckAnyway(err) ==
    /\ cpc = "dlq_add"
    /\ cpc' = "dlq_ack"
    /\ IF err
       THEN UNCHANGED <<dlq, dlqSeq, dlqWrites>>
       ELSE /\ dlqSeq' = dlqSeq + 1
            /\ dlq' = dlq \cup {[id |-> dlqSeq + 1, original_id |-> cur,
                                 data |-> [mid |-> stream[cur].mid,
                                           retry |-> curRetry]]}
            /\ dlqWrites' = [dlqWrites EXCEPT ![cur] = @ + 1]
    /\ UNCHANGED <<stream, lastDelivered, pending>>
    /\ UNCHANGED <<running, cancelled, stopCalled, batch, cur, curRetry,
                   processed, retried, failed, fwdOk, fwdFail, ackedOk>>
    /\ UNCHANGED <<maxRetries, target>>
    /\ UNCHANGED serverVars
    /\ UNCHANGED replayVars
    /\ UNCHANGED inflight
    /\ UNCHANGED callVars

\* MoveToDeadLetterQueue: XADD to the dead-letter stream
ConsumerDLQAdd(err) ==
    /\ cpc = "dlq_add"
    /\ IF err
       THEN /\ cpc' = "batch"
            /\ cur' = 0
            /\ UNCHANGED <<dlq, dlqSeq, dlqWrites>>
       ELSE /\ cpc' = "dlq_ack"
            /\ dlqSeq' = dlqSeq + 1
            /\ dlq' = dlq \cup {[id |-> dlqSeq + 1, original_id |-> cur,
                                 data |-> [mid |-> stream[cur].mid,
                                           retry |-> curRetry]]}
            /\ dlqWrites' = [dlqWrites EXCEPT ![cur] = @ + 1]
            /\ UNCHANGED cur
    /\ UNCHANGED <<stream, lastDelivered, pending>>
    /\ UNCHANGED <<running, cancelled, stopCalled, batch, curRetry, processed,
                   retried, failed, fwdOk, fwdFail, ackedOk>>
    /\ UNCHANGED <<maxRetries, target>>
    /\ UNCHANGED serverVars
    /\ UNCHANGED replayVars
    /\ UNCHANGED inflight
    /\ UNCHANGED callVars

\* MoveToDeadLetterQueue: AcknowledgeMessage of the original entry
ConsumerDLQAck(err) ==
    /\ cpc = "dlq_ack"
    /\ pending' = IF err THEN pending ELSE pending \ {cur}
    /\ cpc' = "batch"
    /\ cur' = 0
    /\ UNCHANGED <<stream, lastDelivered, dlq, dlqSeq>>
    /\ UNCHANGED <<running, cancelled, stopCalled, batch, curRetry, processed,
                   retried, failed, fwdOk, fwdFail, ackedOk>>
    /\ UNCHANGED <<maxRetries, target>>
    /\ UNCHANGED serverVars
    /\ UNCHANGED replayVars
    /\ UNCHANGED histVars
    /\ UNCHANGED callVars

\* handleForwardError: time.Sleep(delay) ends; the message is dropped from
\* memory and the loop goes on with the rest of the batch
ConsumerRetrySleepDone ==
    /\ cpc = "sleep_retry"
    /\ cpc' = "batch"
    /\ cur' = 0
    /\ UNCHANGED <<running, cancelled, stopCalled, batch, curRetry, processed,
                   retried, failed, fwdOk, fwdFail, ackedOk>>
    /\ UNCHANGED <<maxRetries, target>>
    /\ UNCHANGED serverVars
    /\ UNCHANGED logVars
    /\ UNCHANGED replayVars
    /\ UNCHANGED histVars
    /\ UNCHANGED callVars

\* Consumer.Stop, called by main on SIGINT/SIGTERM
ConsumerStop ==
    /\ ~stopCalled
    /\ stopCalled' = TRUE
    /\ running' = FALSE
    /\ UNCHANGED <<cancelled, cpc, batch, cur, curRetry, processed, retried,
                   failed, fwdOk, fwdFail, ackedOk>>
    /\ UNCHANGED <<maxRetries, target>>
    /\ UNCHANGED serverVars
    /\ UNCHANGED logVars
    /\ UNCHANGED replayVars
    /\ UNCHANGED histVars
    /\ UNCHANGED callVars

\* main: cancel() after consumer.Stop()
ContextCancel ==
    /\ stopCalled
    /\ ~cancelled
    /\ cancelled' = TRUE
    /\ UNCHANGED <<running, stopCalled, cpc, batch, cur, curRetry, processed,
                   retried, failed, fwdOk, fwdFail, ackedOk>>
    /\ UNCHANGED <<maxRetries, target>>
    /\ UNCHANGED serverVars
    /\ UNCHANGED logVars
    /\ UNCHANGED replayVars
    /\ UNCHANGED histVars
    /\ UNCHANGED callVars

\* ---------------------------------------------------------------------
\* Relay client: HandleReplayDLQMessage
\* ---------------------------------------------------------------------

\* GetDLQMessage finds the entry with the requested id; limit and cap bound
\* the requests submitted and the stream length explored
ReplayBegin(d, limit, cap) ==
    /\ replayCount < limit
    /\ Len(stream) + Cardinality({rp \in replays : rp.stage = "add"}) < cap
    /\ d \in dlq
    /\ replayCount' = replayCount + 1
    /\ replays' = replays \cup {[n |-> replayCount + 1, dlqId |-> d.id,
                                 mid |-> d.data.mid, stage |-> "add",
                                 newId |-> 0, status |-> 0]}
    /\ UNCHANGED <<maxRetries, target>>
    /\ UNCHANGED serverVars
    /\ UNCHANGED logVars
    /\ UNCHANGED consumerVars
    /\ UNCHANGED histVars
    /\ UNCHANGED callVars

ReplayGet(d) == ReplayBegin(d, MaxReplays, MaxStream)

\* Variant: the error of AddWebhook is only logged and the handler goes on
\* to DeleteDLQMessage
ReplayAdd_DeleteAnyway(rp, err) ==
    /\ rp \in replays
    /\ rp.stage = "add"
    /\ IF err
       THEN /\ replays' = (replays \ {rp}) \cup {[rp EXCEPT !.stage = "delete"]}
            /\ UNCHANGED stream
       ELSE /\ stream' = AddWebhook(stream, rp.mid)
            /\ replays' = (replays \ {rp}) \cup
                    {[rp EXCEPT !.stage = "delete", !.newId = Len(stream) + 1]}
    /\ UNCHANGED <<lastDelivered, pending, dlq, dlqSeq, replayCount>>
    /\ UNCHANGED <<maxRetries, target>>
    /\ UNCHANGED serverVars
    /\ UNCHANGED consumerVars
    /\ UNCHANGED histVars
    /\ UNCHANGED callVars

\* AddWebhook(ctx, &message.Webhook); a failure ends the request with 500
ReplayAdd(rp, err) ==
    /\ rp \in replays
    /\ rp.stage = "add"
    /\ IF err
       THEN /\ replays' = (replays \ {rp}) \cup
                    {[rp EXCEPT !.stage = "done",
                                !.status = StatusInternalServerError]}
            /\ UNCHANGED stream
       ELSE /\ stream' = AddWebhook(stream, rp.mid)
            /\ replays' = (replays \ {rp}) \cup
                    {[rp EXCEPT !.stage = "delete", !.newId = Len(stream) + 1]}
    /\ UNCHANGED <<lastDelivered, pending, dlq, dlqSeq, replayCount>>
    /\ UNCHANGED <<maxRetries, target>>
    /\ UNCHANGED serverVars
    /\ UNCHANGED consumerVars
    /\ UNCHANGED histVars
    /\ UNCHANGED callVars

\* HandleReplayDLQMessage after the append: the error of DeleteDLQMessage is
\* only logged and http.StatusOK is written
ReplayStatus(delErr) == StatusOK

\* DeleteDLQMessage (XDEL), then the answer
ReplayDelete(rp, err) ==
    /\ rp \in replays
    /\ rp.stage = "delete"
    /\ dlq' = IF err THEN dlq ELSE {d \in dlq : d.id # rp.dlqId}
    /\ replays' = (replays \ {rp}) \cup
            {[rp EXCEPT !.stage = "done", !.status = ReplayStatus(err)]}
    /\ UNCHANGED <<stream, lastDelivered, pending, dlqSeq, replayCount>>
    /\ UNCHANGED <<maxRetries, target>>
    /\ UNCHANGED serverVars
    /\ UNCHANGED consumerVars
    /\ UNCHANGED histVars
    /\ UNCHANGED callVars

\* ---------------------------------------------------------------------
\* One webhook from capture to forward, examined on its own
\* ---------------------------------------------------------------------

\* Header names as the sender wrote them
SentNames == {"connection", "TE", "Upgrade", "Content-Type", "X-Hub-Signature",
              "X-Relay-Signature", "x-relay-webhook-id"}

\* Keys of r.Header: net/http stores every name in canonical MIME form
CanonicalMIMEHeaderKey(n) ==
    CASE n = "connection" -> "Connection"
      [] n = "TE" -> "Te"
      [] n = "x-relay-webhook-id" -> "X-Relay-Webhook-Id"
      [] n = "X-Relay-Webhook-ID" -> "X-Relay-Webhook-Id"
      [] OTHER -> n

\* The value the sender gave to a header
SentValue(n) ==
    CASE n = "X-Hub-Signature" -> "sha1=abc"
      [] n = "X-Relay-Signature" -> "forged-signature"
      [] n = "x-relay-webhook-id" -> "forged-id"
      [] OTHER -> "value"

\* r.Header of the ingested request
RequestHeader(sent) ==
    [k \in {CanonicalMIMEHeaderKey(n) : n \in sent} |->
        SentValue(CHOOSE n \in sent : CanonicalMIMEHeaderKey(n) = k)]

\* r.Header.Get(name): "" when the header is absent
HeaderGet(h, name) ==
    IF CanonicalMIMEHeaderKey(name) \in DOMAIN h
    THEN h[CanonicalMIMEHeaderKey(name)] ELSE ""

\* HTTPMethod of the endpoint configured for the route ("": none), the
\* target_endpoint field of the stream entry ("": none), reception times
EndpointMethods == {"", "POST", "PUT"}
TargetEndpoints == {"", "http://override/hook"}
ReceptionTimes == {[sec |-> 1700000000, nsec |-> 0],
                   [sec |-> 1700000000, nsec |-> 500]}
LocalWebhookURL == "http://localhost:3000/webhook"
WebhookID == "uuid-1"

\* HandleWebhook: "Collect headers" and "Create webhook"
NewWebhook(sent, endpointMethod, now) ==
    [id |-> WebhookID,
     headers |-> RequestHeader(sent),
     timestamp |-> now,
     signature |-> HeaderGet(RequestHeader(sent), "X-Hub-Signature"),
     http_method |-> endpointMethod]

\* Variant: the header loop compares with "TE" as the sender writes it
HopByHop_UpperTE == {"Connection", "Keep-Alive", "Proxy-Authenticate",
                     "Proxy-Authorization", "TE", "Trailers",
                     "Transfer-Encoding", "Upgrade"}

\* Forward: the names skipped by the header loop
HopByHop == {"Connection", "Keep-Alive", "Proxy-Authenticate",
             "Proxy-Authorization", "Te", "Trailers", "Transfer-Encoding",
             "Upgrade"}

\* time.Time.Format(time.RFC3339): whole seconds, no fraction
FormatRFC3339(t) == ToString(t.sec)

\* Forward: the headers set after the copy loop
RelayHeaders(webhook) ==
    LET always == ("X-Relay-Webhook-Id" :> webhook.id) @@
                  ("X-Relay-Timestamp" :> FormatRFC3339(webhook.timestamp))
    IN  IF webhook.signature # ""
        THEN ("X-Relay-Signature" :> webhook.signature) @@ always
        ELSE always

\* Forward: req.Header after the copy loop and the relay headers
ForwardHeader(webhook, skipped) ==
    LET copied == [k \in (DOMAIN webhook.headers) \ skipped |->
                      webhook.headers[k]]
    IN  RelayHeaders(webhook) @@ copied

\* Forward: http.NewRequestWithContext(ctx, http.MethodPost,
\* f.config.LocalWebhookURL, body) and the headers
ForwardRequest(webhook) ==
    [method |-> "POST",
     url |-> LocalWebhookURL,
     header |-> ForwardHeader(webhook, HopByHop)]

\* Statuses the local endpoint may answer with
ResponseStatuses == {200, 201, 299, 300, 404, 500}

\* What httpClient.Do can end with: a response, a transport error, the
\* 30 s client timeout
ForwardOutcomes ==
    {[kind |-> "response", status |-> st] : st \in ResponseStatuses}
        \cup {[kind |-> "transport error", status |-> 0],
              [kind |-> "timeout", status |-> 0]}

\* Variant: status 300 is taken for a success
ForwardError_Accept300(o) ==
    o.kind # "response" \/ o.status < 200 \/ o.status > 300

\* Forward returns an error: Do failed, or
\* "resp.StatusCode < 200 || resp.StatusCode >= 300"
ForwardError(o) ==
    o.kind # "response" \/ o.status < 200 \/ o.status >= 300

ForwardInputs ==
    [sent : SUBSET SentNames, endpointMethod : EndpointMethods,
     targetEndpoint : TargetEndpoints, now : ReceptionTimes]

\* HandleWebhook builds the envelope; the stream entry read back by the
\* consumer is the RelayMessage around it
ForwardCapture ==
    /\ callPc = "capture"
    /\ callOut' = [message |->
                     [webhook |-> NewWebhook(callIn.sent, callIn.endpointMethod,
                                             callIn.now),
                      retry_count |-> 0,
                      target_endpoint |-> callIn.targetEndpoint]]
    /\ callPc' = "build"
    /\ UNCHANGED callIn
    /\ UNCHANGED pipelineVars

\* processMessage: c.forwarder.Forward(ctx, &relayMessage.Webhook), up to
\* the request being ready
ForwardBuild ==
    /\ callPc = "build"
    /\ callOut' = [message |-> callOut.message,
                   request |-> ForwardRequest(callOut.message.webhook)]
    /\ callPc' = "send"
    /\ UNCHANGED callIn
    /\ UNCHANGED pipelineVars

\* Forward: httpClient.Do and the status check
ForwardSend(o) ==
    /\ callPc = "send"
    /\ callOut' = [message |-> callOut.message,
                   request |-> callOut.request,
                   outcome |-> o,
                   err |-> ForwardError(o)]
    /\ callPc' = "returned"
    /\ UNCHANGED callIn
    /\ UNCHANGED pipelineVars

\* processMessage: "if err != nil { c.handleForwardError(...); return }",
\* otherwise AcknowledgeMessage
ForwardHandled ==
    /\ callPc = "returned"
    /\ callOut' = [message |-> callOut.message,
                   request |-> callOut.request,
                   outcome |-> callOut.outcome,
                   err |-> callOut.err,
                   next |-> IF callOut.err THEN "handleForwardError"
                                           ELSE "AcknowledgeMessage"]
    /\ callPc' = "handled"
    /\ UNCHANGED callIn
    /\ UNCHANGED pipelineVars

\* ---------------------------------------------------------------------
\* handleForwardError: the backoff delay, examined on its own
\* ---------------------------------------------------------------------

\* RETRY_DELAY in milliseconds and RETRY_MULTIPLIER as a fraction
RetryDelays == {0, 1, 250, 1000}
RetryMultipliers == {[num |-> 1, den |-> 1], [num |-> 2, den |-> 1],
                     [num |-> 3, den |-> 2], [num |-> 1, den |-> 2]}

BackoffInputs ==
    [retryDelay : RetryDelays, multiplier : RetryMultipliers,
     retryCount : 1..MaxFailures]

\* A Duration is a number of nanoseconds, held here as whole milliseconds
\* and the nanoseconds left over. Scale(d, a, b) is d * a / b with the
\* fraction of a nanosecond dropped.
Scale(d, a, b) ==
    LET rest == (((d.ms * a) % b) * Millisecond + d.ns * a) \div b
    IN  [ms |-> (d.ms * a) \div b + rest \div Millisecond,
         ns |-> rest % Millisecond]

\* Variant: the delay is divided by the multiplier
NextDelay_Divide(delay, m) == Scale(delay, m.den, m.num)

\* "delay = time.Duration(float64(delay) * c.config.RetryMultiplier)": the
\* conversion to Duration drops the fraction of a nanosecond
NextDelay(delay, m) == Scale(delay, m.num, m.den)

\* "delay := time.Duration(c.config.RetryDelay) * time.Millisecond"
BackoffStart ==
    /\ callPc = "backoff"
    /\ callOut' = [delay |-> [ms |-> callIn.retryDelay, ns |-> 0], i |-> 1]
    /\ callPc' = "loop"
    /\ UNCHANGED callIn
    /\ UNCHANGED pipelineVars

\* One turn of "for i := 1; i < relayMessage.RetryCount; i++"
BackoffIterate ==
    /\ callPc = "loop"
    /\ callOut.i < callIn.retryCount
    /\ callOut' = [delay |-> NextDelay(callOut.delay, callIn.multiplier),
                   i |-> callOut.i + 1]
    /\ UNCHANGED <<callIn, callPc>>
    /\ UNCHANGED pipelineVars

\* The loop ends: time.Sleep(delay)
BackoffSleep ==
    /\ callPc = "loop"
    /\ callOut.i >= callIn.retryCount
    /\ callPc' = "sleep"
    /\ UNCHANGED <<callIn, callOut>>
    /\ UNCHANGED pipelineVars

\* ---------------------------------------------------------------------
\* AddWebhook / ParseMessage: the serialized form of a Relay Message
\* ---------------------------------------------------------------------

\* Bytes of header values: '"', 'a', the two bytes of a UTF-8 "e acute",
\* and 0xFF, which occurs in no UTF-8 text
ValueBytes == {34, 97, 195, 169, 255}
\* Bytes of payloads
BodyBytes == {0, 97, 255}

SeqsUpTo(S, n) == UNION {[1..k -> S] : k \in 0..n}

HeaderValues == SeqsUpTo(ValueBytes, MaxValueLen)
Payloads == SeqsUpTo(BodyBytes, MaxBodyLen) \ {<<>>}

\* U+FFFD in UTF-8
ReplacementRune == <<239, 191, 189>>

\* encoding/json writes a Go string as valid UTF-8: each byte that is not
\* part of a well-formed sequence becomes U+FFFD. (Sequences of one, two
\* and three bytes are recognised, which covers ValueBytes and U+FFFD.)
RECURSIVE CoerceUTF8(_)
CoerceUTF8(b) ==
    IF b = <<>> THEN <<>>
    ELSE IF Head(b) < 128 THEN <<Head(b)>> \o CoerceUTF8(Tail(b))
    ELSE IF Head(b) \in 194..223 /\ Len(b) >= 2 /\ b[2] \in 128..191
         THEN <<b[1], b[2]>> \o CoerceUTF8(Tail(Tail(b)))
    ELSE IF /\ Head(b) \in 224..239 /\ Len(b) >= 3
            /\ b[2] \in 128..191 /\ b[3] \in 128..191
         THEN <<b[1], b[2], b[3]>> \o CoerceUTF8(SubSeq(b, 4, Len(b)))
    ELSE ReplacementRune \o CoerceUTF8(Tail(b))

\* The JSON escapes: a backslash before '"' and before '\'
RECURSIVE EscapeJSON(_)
EscapeJSON(b) ==
    IF b = <<>> THEN <<>>
    ELSE IF Head(b) \in {34, 92} THEN <<92, Head(b)>> \o EscapeJSON(Tail(b))
    ELSE <<Head(b)>> \o EscapeJSON(Tail(b))

RECURSIVE UnescapeJSON(_)
UnescapeJSON(j) ==
    IF j = <<>> THEN <<>>
    ELSE IF Head(j) = 92 /\ Len(j) >= 2
         THEN <<j[2]>> \o UnescapeJSON(Tail(Tail(j)))
    ELSE <<Head(j)>> \o UnescapeJSON(Tail(j))

\* json.Marshal / json.Unmarshal of a string field
MarshalString(v) == EscapeJSON(CoerceUTF8(v))
UnmarshalString(j) == CoerceUTF8(UnescapeJSON(j))

\* json.Marshal of a []byte field: standard base64 with padding, as a
\* sequence of 6-bit digits (64: the padding '=')
RECURSIVE Base64Encode(_)
Base64Encode(b) ==
    IF b = <<>> THEN <<>>
    ELSE IF Len(b) = 1
         THEN <<b[1] \div 4, (b[1] % 4) * 16, 64, 64>>
    ELSE IF Len(b) = 2
         THEN <<b[1] \div 4, (b[1] % 4) * 16 + b[2] \div 16,
                (b[2] % 16) * 4, 64>>
    ELSE <<b[1] \div 4, (b[1] % 4) * 16 + b[2] \div 16,
           (b[2] % 16) * 4 + b[3] \div 64, b[3] % 64>>
             \o Base64Encode(SubSeq(b, 4, Len(b)))

RECURSIVE Base64Decode(_)
Base64Decode(d) ==
    IF Len(d) < 4 THEN <<>>
    ELSE LET first == d[1] * 4 + d[2] \div 16
             second == (d[2] % 16) * 16 + d[3] \div 4
             third == (d[3] % 4) * 64 + d[4]
         IN  IF d[3] = 64 THEN <<first>>
             ELSE IF d[4] = 64 THEN <<first, second>>
             ELSE <<first, second, third>> \o Base64Decode(SubSeq(d, 5, Len(d)))

\* The webhook of the round trip: one captured header and a payload
CodecInputs == [value : HeaderValues, body : Payloads]

CodecWebhook(in) ==
    [id |-> WebhookID, headers |-> ("X-Customer" :> in.value), body |-> in.body]

\* AddWebhook: message := RelayMessage{...}; json.Marshal(message)
MarshalMessage(webhook) ==
    [message_id |-> webhook.id,
     webhook |-> [id |-> webhook.id,
                  headers |-> [k \in DOMAIN webhook.headers |->
                                  MarshalString(webhook.headers[k])],
                  body |-> Base64Encode(webhook.body)],
     retry_count |-> 0]

\* ParseMessage: json.Unmarshal([]byte(data), &relayMessage)
ParseMessage(data) ==
    [message_id |-> data.message_id,
     webhook |-> [id |-> data.webhook.id,
                  headers |-> [k \in DOMAIN data.webhook.headers |->
                                  UnmarshalString(data.webhook.headers[k])],
                  body |-> Base64Decode(data.webhook.body)],
     retry_count |-> data.retry_count]

\* AddWebhook: the entry {"data": messageJSON} is written to the stream
CodecAdd ==
    /\ callPc = "add"
    /\ callOut' = [entry |-> [data |-> MarshalMessage(CodecWebhook(callIn))]]
    /\ callPc' = "stored"
    /\ UNCHANGED callIn
    /\ UNCHANGED pipelineVars

\* processMessage: storage.ParseMessage(redisMessage)
CodecParse ==
    /\ callPc = "stored"
    /\ callOut' = [entry |-> callOut.entry,
                   parsed |-> ParseMessage(callOut.entry.data)]
    /\ callPc' = "parsed"
    /\ UNCHANGED callIn
    /\ UNCHANGED pipelineVars

\* ---------------------------------------------------------------------
\* RedisClient: the stream calls, made in any order by any caller
\* ---------------------------------------------------------------------

\* Variant: XACK of an id that is not pending puts it back
XAck_Toggle(p, id) == IF id \in p THEN p \ {id} ELSE p \cup {id}

\* XACK stream group id: the id leaves the pending entries list; an id that
\* is not in the list is left alone and the reply is 0, not an error
XAck(p, id) == p \ {id}

\* AcknowledgeMessage returns an error only when the command fails
AcknowledgeError(redisDown) == redisDown

NoAck == [op |-> "none", id |-> 0, err |-> FALSE, again |-> FALSE]

\* AddWebhook
StoreAdd ==
    /\ callPc = "store"
    /\ Len(stream) < MaxLog
    /\ stream' = AddWebhook(stream, Len(stream) + 1)
    /\ callOut' = [acked |-> callOut.acked, last |-> [NoAck EXCEPT !.op = "add"]]
    /\ UNCHANGED <<lastDelivered, pending, dlq, dlqSeq>>
    /\ UNCHANGED <<callIn, callPc>>
    /\ UNCHANGED <<serverVars, consumerVars, histVars, replayVars, maxRetries,
                   target>>

\* ReadMessages(ctx, count, block)
StoreRead(count) ==
    /\ callPc = "store"
    /\ LET msgs == NewMessages(stream, lastDelivered, count)
       IN  /\ Len(msgs) > 0
           /\ lastDelivered' = msgs[Len(msgs)]
           /\ pending' = pending \cup SeqToSet(msgs)
    /\ callOut' = [acked |-> callOut.acked, last |-> [NoAck EXCEPT !.op = "read"]]
    /\ UNCHANGED <<stream, dlq, dlqSeq>>
    /\ UNCHANGED <<callIn, callPc>>
    /\ UNCHANGED <<serverVars, consumerVars, histVars, replayVars, maxRetries,
                   target>>

\* MoveToDeadLetterQueue(ctx, id, message) for a delivered entry: XADD to
\* the dead-letter stream, then AcknowledgeMessage
StoreMoveToDLQ(id) ==
    /\ callPc = "store"
    /\ id \in pending
    /\ dlqSeq < MaxLog
    /\ dlqSeq' = dlqSeq + 1
    /\ dlq' = dlq \cup {[id |-> dlqSeq + 1, original_id |-> id,
                         data |-> [mid |-> stream[id].mid, retry |-> 1]]}
    /\ pending' = XAck(pending, id)
    /\ callOut' = [acked |-> callOut.acked \cup {id},
                   last |-> [NoAck EXCEPT !.op = "move"]]
    /\ UNCHANGED <<stream, lastDelivered>>
    /\ UNCHANGED <<callIn, callPc>>
    /\ UNCHANGED <<serverVars, consumerVars, histVars, replayVars, maxRetries,
                   target>>

\* AcknowledgeMessage(ctx, id), for any id of the stream; an id counts as
\* acknowledged once an XACK has taken it out of the pending entries list
StoreAck(id) ==
    /\ callPc = "store"
    /\ id \in DOMAIN stream
    /\ pending' = XAck(pending, id)
    /\ callOut' = [acked |-> callOut.acked \cup (pending \cap {id}),
                   last |-> [op |-> "ack", id |-> id,
                             err |-> AcknowledgeError(FALSE),
                             again |-> id \in callOut.acked]]
    /\ UNCHANGED <<stream, lastDelivered, dlq, dlqSeq>>
    /\ UNCHANGED <<callIn, callPc>>
    /\ UNCHANGED <<serverVars, consumerVars, histVars, replayVars, maxRetries,
                   target>>

\* ---------------------------------------------------------------------
\* config.Load
\* ---------------------------------------------------------------------

\* A variable that is not in the environment
Unset == "<unset>"

\* The environments Load is run in
Environments ==
    [API_KEY : {Unset, "", "test-api-key"},
     STREAM_NAME : {Unset, "", "custom-stream"},
     LOCAL_WEBHOOK_URL : {Unset, "", "http://crm/hook"},
     SERVER_PORT : {Unset, "9090"},
     MAX_RETRIES : {Unset, "abc", "-1", "0", "5"},
     RETRY_DELAY : {Unset, "-1", "0", "500"},
     RETRY_MULTIPLIER : {Unset, "abc", "-1", "0", "1.5"},
     MESSAGE_TTL : {Unset, "-1", "0", "60"}]

\* os.Getenv: "" for a variable that is not set
Getenv(env, key) == IF env[key] = Unset THEN "" ELSE env[key]

\* strconv.Atoi on the values above
AtoiOk(v) == v \in {"-1", "0", "5", "60", "500"}
Atoi(v) ==
    CASE v = "-1" -> -1
      [] v = "0" -> 0
      [] v = "5" -> 5
      [] v = "60" -> 60
      [] v = "500" -> 500

\* strconv.ParseFloat on the values above, as a fraction
ParseFloatOk(v) == v \in {"-1", "0", "1.5"}
ParseFloat(v) ==
    CASE v = "-1" -> [num |-> -1, den |-> 1]
      [] v = "0" -> [num |-> 0, den |-> 1]
      [] v = "1.5" -> [num |-> 3, den |-> 2]

getEnv(env, key, defaultValue) ==
    IF Getenv(env, key) # "" THEN Getenv(env, key) ELSE defaultValue

getEnvAsInt(env, key, defaultValue) ==
    IF Getenv(env, key) # "" /\ AtoiOk(Getenv(env, key))
    THEN Atoi(Getenv(env, key)) ELSE defaultValue

getEnvAsFloat(env, key, defaultValue) ==
    IF Getenv(env, key) # "" /\ ParseFloatOk(Getenv(env, key))
    THEN ParseFloat(Getenv(env, key)) ELSE defaultValue

\* Load: the Config literal
LoadedConfig(env) ==
    [ServerPort |-> getEnv(env, "SERVER_PORT", "8080"),
     StreamName |-> getEnv(env, "STREAM_NAME", "webhook-stream"),
     MessageTTL |-> getEnvAsInt(env, "MESSAGE_TTL", DefaultMessageTTL),
     APIKey |-> getEnv(env, "API_KEY", ""),
     LocalWebhookURL |-> getEnv(env, "LOCAL_WEBHOOK_URL", LocalWebhookURL),
     MaxRetries |-> getEnvAsInt(env, "MAX_RETRIES", DefaultMaxRetries),
     RetryDelay |-> getEnvAsInt(env, "RETRY_DELAY", DefaultRetryDelay),
     RetryMultiplier |-> getEnvAsFloat(env, "RETRY_MULTIPLIER",
                                       [num |-> 2, den |-> 1])]

\* Variant: a multiplier of 0 is accepted
validate_ZeroMultiplier(cfg) ==
    (IF cfg.ServerPort = "" THEN {"SERVER_PORT is required"} ELSE {})
    \cup (IF cfg.StreamName = "" THEN {"STREAM_NAME is required"} ELSE {})
    \cup (IF cfg.APIKey = "" THEN {"API_KEY is required"} ELSE {})
    \cup (IF cfg.LocalWebhookURL = ""
          THEN {"LOCAL_WEBHOOK_URL is required"} ELSE {})
    \cup (IF cfg.MaxRetries < 0
          THEN {"MAX_RETRIES must be non-negative"} ELSE {})
    \cup (IF cfg.RetryDelay < 0
          THEN {"RETRY_DELAY must be non-negative"} ELSE {})
    \cup (IF cfg.RetryMultiplier.num < 0
          THEN {"RETRY_MULTIPLIER must be positive"} ELSE {})
    \cup (IF cfg.MessageTTL <= 0
          THEN {"MESSAGE_TTL must be positive"} ELSE {})

\* validate: the messages collected in "errors"
validate(cfg) ==
    (IF cfg.ServerPort = "" THEN {"SERVER_PORT is required"} ELSE {})
    \cup (IF cfg.StreamName = "" THEN {"STREAM_NAME is required"} ELSE {})
    \cup (IF cfg.APIKey = "" THEN {"API_KEY is required"} ELSE {})
    \cup (IF cfg.LocalWebhookURL = ""
          THEN {"LOCAL_WEBHOOK_URL is required"} ELSE {})
    \cup (IF cfg.MaxRetries < 0
          THEN {"MAX_RETRIES must be non-negative"} ELSE {})
    \cup (IF cfg.RetryDelay < 0
          THEN {"RETRY_DELAY must be non-negative"} ELSE {})
    \cup (IF cfg.RetryMultiplier.num <= 0
          THEN {"RETRY_MULTIPLIER must be positive"} ELSE {})
    \cup (IF cfg.MessageTTL <= 0
          THEN {"MESSAGE_TTL must be positive"} ELSE {})

\* Load: the environment is read into a Config
ConfigRead ==
    /\ callPc = "load"
    /\ callOut' = [cfg |-> LoadedConfig(callIn)]
    /\ callPc' = "validate"
    /\ UNCHANGED callIn
    /\ UNCHANGED pipelineVars

\* Load: "if err := validate(cfg); err != nil { return nil, err }"
ConfigValidate ==
    /\ callPc = "validate"
    /\ callOut' = [cfg |-> callOut.cfg,
                   errors |-> validate(callOut.cfg),
                   err |-> validate(callOut.cfg) # {}]
    /\ callPc' = "loaded"
    /\ UNCHANGED callIn
    /\ UNCHANGED pipelineVars

\* ---------------------------------------------------------------------
\* Relay client: the calls in which the consumer goroutine is suspended
\* ---------------------------------------------------------------------
\* One suspension of the consumer examined on its own: the point is the
\* blocking ReadMessages call ("read"), the Forward call ("forward") or the
\* time.Sleep(delay) of handleForwardError ("sleep"); wait is the time after
\* which the call completes normally (messages or the block timeout, the
\* answer of the endpoint or the client timeout, the end of the delay).

\* Whether the call returns now. XReadGroup and the HTTP request are handed
\* ctx and return with an error once it is done; time.Sleep takes no
\* context and returns when the delay has elapsed.
CanLeave(point, elapsed, wait, ctxDone) ==
    CASE point = "read" -> elapsed = wait \/ ctxDone
      [] point = "forward" -> elapsed = wait \/ ctxDone
      [] point = "sleep" -> elapsed = wait

\* time passes while the call is outstanding
SuspendTick ==
    /\ callPc = "suspended"
    /\ callOut.elapsed < callIn.wait
    /\ callOut' = [callOut EXCEPT !.elapsed = @ + 1]
    /\ UNCHANGED <<callIn, callPc>>
    /\ UNCHANGED pipelineVars

\* main: cancel() of the context handed to Consumer.Start
SuspendCancel ==
    /\ ~callOut.ctxDone
    /\ callOut' = [callOut EXCEPT !.ctxDone = TRUE]
    /\ UNCHANGED <<callIn, callPc>>
    /\ UNCHANGED pipelineVars

\* the call returns to the consumer
SuspendLeave ==
    /\ callPc = "suspended"
    /\ CanLeave(callIn.point, callOut.elapsed, callIn.wait, callOut.ctxDone)
    /\ callPc' = "left"
    /\ callOut' = [callOut EXCEPT !.result =
                      IF callOut.elapsed = callIn.wait THEN "completed"
                                                       ELSE "cancelled"]
    /\ UNCHANGED callIn
    /\ UNCHANGED pipelineVars

\* ---------------------------------------------------------------------
\* Relay client: HandleUpdateRetryConfig
\* ---------------------------------------------------------------------
\* The decoded request body: each field is a pointer, <<>> when the JSON
\* document leaves the field out and <<v>> when it gives the value v
RetryConfigRequests ==
    [max_retries : {<<>>, <<-1>>, <<0>>, <<5>>},
     retry_delay : {<<>>, <<-1>>, <<0>>, <<250>>},
     retry_multiplier : {<<>>, <<[num |-> 0, den |-> 1]>>,
                         <<[num |-> -1, den |-> 1]>>, <<[num |-> 3, den |-> 2]>>}]

\* "if req.X != nil { h.config.X = *req.X }"
Assigned(field, old) == IF field = <<>> THEN old ELSE field[1]

\* The handler writes the fields given into the Config that the consumer
\* reads (main hands the same *models.Config to NewConsumer and NewHandler);
\* MaxRetries is the variable maxRetries, the other two are kept in callOut
HandleUpdateRetryConfig(method, req) ==
    /\ callPc = "serving"
    /\ IF method # "PUT"
       THEN UNCHANGED <<maxRetries, callOut>>
       ELSE /\ maxRetries' = Assigned(req.max_retries, maxRetries)
            /\ callOut' =
                 [RetryDelay |-> Assigned(req.retry_delay, callOut.RetryDelay),
                  RetryMultiplier |-> Assigned(req.retry_multiplier,
                                               callOut.RetryMultiplier)]
    /\ UNCHANGED <<callIn, callPc>>
    /\ UNCHANGED target
    /\ UNCHANGED serverVars
    /\ UNCHANGED logVars
    /\ UNCHANGED consumerVars
    /\ UNCHANGED histVars
    /\ UNCHANGED replayVars

\* ---------------------------------------------------------------------
\* The expiry AddWebhook sets on the stream key
\* ---------------------------------------------------------------------
\* The main stream as a Redis key with a time to live: callIn.ttl is
\* MESSAGE_TTL in time units, callOut.expires the time left before Redis
\* deletes the key (0: no expiry set), callOut.group whether the consumer
\* group exists, callOut.accepted and callOut.settled the webhooks appended
\* and the webhooks acknowledged.

\* AddWebhook: XADD (which creates the key when it is missing, without any
\* group), then "r.client.Expire(ctx, r.config.StreamName, MessageTTL)"
ExpiryAdd ==
    /\ callPc = "expiry"
    /\ Cardinality(callOut.accepted) < MaxLog
    /\ LET webhookId == Cardinality(callOut.accepted) + 1
       IN  /\ stream' = AddWebhook(stream, webhookId)
           /\ callOut' = [callOut EXCEPT !.expires = callIn.ttl,
                                         !.accepted = @ \cup {webhookId}]
    /\ UNCHANGED <<lastDelivered, pending, dlq, dlqSeq>>
    /\ UNCHANGED <<callIn, callPc>>
    /\ UNCHANGED <<serverVars, consumerVars, histVars, replayVars, maxRetries,
                   target>>

\* ReadMessages: XREADGROUP needs the group; without it the call fails
\* (NOGROUP) and delivers nothing
ExpiryRead ==
    /\ callPc = "expiry"
    /\ callOut.group
    /\ LET msgs == NewMessages(stream, lastDelivered, ReadCount)
       IN  /\ Len(msgs) > 0
           /\ lastDelivered' = msgs[Len(msgs)]
           /\ pending' = pending \cup SeqToSet(msgs)
    /\ UNCHANGED <<stream, dlq, dlqSeq>>
    /\ UNCHANGED callVars
    /\ UNCHANGED <<serverVars, consumerVars, histVars, replayVars, maxRetries,
                   target>>

\* AcknowledgeMessage of a pending entry after its forward
ExpiryAck(id) ==
    /\ callPc = "expiry"
    /\ id \in pending
    /\ pending' = XAck(pending, id)
    /\ callOut' = [callOut EXCEPT !.settled = @ \cup {stream[id].mid}]
    /\ UNCHANGED <<stream, lastDelivered, dlq, dlqSeq>>
    /\ UNCHANGED <<callIn, callPc>>
    /\ UNCHANGED <<serverVars, consumerVars, histVars, replayVars, maxRetries,
                   target>>

\* One time unit passes. When the time to live runs out Redis deletes the
\* key: the entries of the stream, its consumer groups and their pending
\* entries lists go with it.
ExpiryTick ==
    /\ callPc = "expiry"
    /\ callOut.expires > 0
    /\ IF callOut.expires > 1
       THEN /\ callOut' = [callOut EXCEPT !.expires = @ - 1]
            /\ UNCHANGED <<stream, lastDelivered, pending>>
       ELSE /\ callOut' = [callOut EXCEPT !.expires = 0, !.group = FALSE]
            /\ stream' = <<>>
            /\ lastDelivered' = 0
            /\ pending' = {}
    /\ UNCHANGED <<dlq, dlqSeq>>
    /\ UNCHANGED <<callIn, callPc>>
    /\ UNCHANGED <<serverVars, consumerVars, histVars, replayVars, maxRetries,
                   target>>

\* ---------------------------------------------------------------------
\* Specifications
\* ---------------------------------------------------------------------
\* The relay server alone, with every kind of request.
IngestNext ==
    \/ \E m \in Methods, p \in Paths, k \in PresentedKeys, b \in Bodies,
          lookupErr \in BOOLEAN, addErr \in BOOLEAN :
            HandleWebhookBegin(m, p, k, b, lookupErr, addErr)
    \/ \E rid \in ReqIds : HandleWebhookRespond(rid)
    \/ \E id \in DOMAIN apiKeys, a \in BOOLEAN : HandleUpdateAPIKey(id, a)

IngestSpec == Init /\ [][IngestNext]_vars

\* The steps of the consumer goroutine when Redis answers every call.
ConsumerStep ==
    \/ ConsumerStart
    \/ ConsumerLoop
    \/ ConsumerRead(FALSE)
    \/ ConsumerNextMessage
    \/ ConsumerForwardDone
    \/ ConsumerAck(FALSE)
    \/ ConsumerDLQAdd(FALSE)
    \/ ConsumerDLQAck(FALSE)
    \/ ConsumerRetrySleepDone

\* A well-formed request for the static key, while the explored stream
\* length allows another append
AcceptedWebhook(addErr) ==
    /\ Len(stream) < MaxStream
    /\ HandleWebhookBegin("POST", "/webhook", ConfigAPIKey, "payload", FALSE, addErr)

\* The whole pipeline while the client runs. The client sees the server
\* only through the stream, so the server is reduced here to the appends of
\* well-formed requests; the rest of HandleWebhook touches nothing the
\* client reads. Every Redis call of the client may fail.
Next ==
    \/ AcceptedWebhook(FALSE)
    \/ TargetFails
    \/ TargetRecovers
    \/ ConsumerStart
    \/ ConsumerLoop
    \/ \E err \in BOOLEAN : ConsumerRead(err)
    \/ ConsumerReadBackoff
    \/ ConsumerNextMessage
    \/ ConsumerForwardDone
    \/ \E err \in BOOLEAN : ConsumerAck(err)
    \/ \E err \in BOOLEAN : ConsumerDLQAdd(err)
    \/ \E err \in BOOLEAN : ConsumerDLQAck(err)
    \/ ConsumerRetrySleepDone
    \/ \E d \in dlq : ReplayGet(d)
    \/ \E rp \in replays, err \in BOOLEAN : ReplayAdd(rp, err)
    \/ \E rp \in replays, err \in BOOLEAN : ReplayDelete(rp, err)

Spec == Init /\ [][Next]_vars

\* The pipeline with the shutdown sequence of main (Stop, then cancel).
ShutdownNext ==
    \/ Next
    \/ ConsumerStop
    \/ ContextCancel

ShutdownSpec == Init /\ [][ShutdownNext]_vars

\* The client configured with at least one retry, Redis available, the
\* client never shut down, the local endpoint free to fail and to recover. The consumer goroutine is scheduled fairly: it is a
\* loop that never waits for anything but its own blocking calls, each of
\* which returns (block timeout, HTTP timeout, end of sleep).
FairNext ==
    \/ AcceptedWebhook(FALSE)
    \/ \E rid \in ReqIds : HandleWebhookRespond(rid)
    \/ TargetFails
    \/ TargetRecovers
    \/ ConsumerStep

FairInit == Init /\ maxRetries >= 1

FairSpec ==
    /\ FairInit
    /\ [][FairNext]_vars
    /\ WF_vars(ConsumerStep)
    /\ WF_vars(\E rid \in ReqIds : HandleWebhookRespond(rid))

\* As FairSpec, with a local endpoint that answers 2xx to every request.
\* The consumer then never leaves the success path of processMessage.
HealthyConsumerStep ==
    \/ ConsumerStart
    \/ ConsumerLoop
    \/ ConsumerRead(FALSE)
    \/ ConsumerNextMessage
    \/ ConsumerForwardDone
    \/ ConsumerAck(FALSE)

HealthyNext ==
    \/ AcceptedWebhook(FALSE)
    \/ \E rid \in ReqIds : HandleWebhookRespond(rid)
    \/ HealthyConsumerStep

HealthyInit == Init /\ target = "up"

HealthySpec ==
    /\ HealthyInit
    /\ [][HealthyNext]_vars
    /\ WF_vars(HealthyConsumerStep)
    /\ WF_vars(\E rid \in ReqIds : HandleWebhookRespond(rid))

\* The pipeline at rest, for the examination of one component call
Standalone == PipelineInit /\ maxRetries = DefaultMaxRetries /\ target = "up"

\* One webhook followed from HandleWebhook to the outcome of its forward
\* attempt, for every combination of sender headers, endpoint method,
\* target override and answer of the local endpoint.
ForwardInit ==
    /\ Standalone
    /\ callIn \in ForwardInputs
    /\ callPc = "capture"
    /\ callOut = "none"

ForwardNext ==
    \/ ForwardCapture
    \/ ForwardBuild
    \/ \E o \in ForwardOutcomes : ForwardSend(o)
    \/ ForwardHandled

ForwardSpec == ForwardInit /\ [][ForwardNext]_vars

\* The delay computed by handleForwardError for every retry configuration
\* and every number of failed attempts up to MaxFailures.
BackoffInit ==
    /\ Standalone
    /\ callIn \in BackoffInputs
    /\ callPc = "backoff"
    /\ callOut = "none"

BackoffNext ==
    \/ BackoffStart
    \/ BackoffIterate
    \/ BackoffSleep

BackoffSpec == BackoffInit /\ [][BackoffNext]_vars

\* One Relay Message serialized by AddWebhook and parsed back by
\* ParseMessage, for every header value and payload within the bounds.
CodecInit ==
    /\ Standalone
    /\ callIn \in CodecInputs
    /\ callPc = "add"
    /\ callOut = "none"

CodecNext ==
    \/ CodecAdd
    \/ CodecParse

CodecSpec == CodecInit /\ [][CodecNext]_vars

\* The stream calls of RedisClient made in any order, acknowledgements of
\* any id of the stream included.
StoreInit ==
    /\ Standalone
    /\ callIn = "none"
    /\ callPc = "store"
    /\ callOut = [acked |-> {}, last |-> NoAck]

StoreNext ==
    \/ StoreAdd
    \/ \E count \in {1, ReadCount} : StoreRead(count)
    \/ \E id \in LogIds : StoreMoveToDLQ(id)
    \/ \E id \in LogIds : StoreAck(id)

StoreSpec == StoreInit /\ [][StoreNext]_vars

\* config.Load run in every environment of Environments.
ConfigInit ==
    /\ Standalone
    /\ callIn \in Environments
    /\ callPc = "load"
    /\ callOut = "none"

ConfigNext ==
    \/ ConfigRead
    \/ ConfigValidate

ConfigSpec == ConfigInit /\ [][ConfigNext]_vars

\* One suspension of the consumer, at each of its three points and for
\* every waiting time up to MaxWait, with the cancellation of the context
\* arriving at any moment.
SuspendInit ==
    /\ Standalone
    /\ callIn \in [point : {"read", "forward", "sleep"}, wait : 0..MaxWait]
    /\ callPc = "suspended"
    /\ callOut = [elapsed |-> 0, ctxDone |-> FALSE, result |-> "none"]

SuspendNext ==
    \/ SuspendTick
    \/ SuspendCancel
    \/ SuspendLeave

SuspendSpec == SuspendInit /\ [][SuspendNext]_vars

\* Any step of the consumer goroutine, with Redis calls that may fail
ConsumerMove ==
    \/ ConsumerStart
    \/ ConsumerLoop
    \/ \E err \in BOOLEAN : ConsumerRead(err)
    \/ ConsumerReadBackoff
    \/ ConsumerNextMessage
    \/ ConsumerForwardDone
    \/ \E err \in BOOLEAN : ConsumerAck(err)
    \/ \E err \in BOOLEAN : ConsumerDLQAdd(err)
    \/ \E err \in BOOLEAN : ConsumerDLQAck(err)
    \/ ConsumerRetrySleepDone

\* The consumer and the shutdown sequence of main under fair scheduling:
\* the consumer goroutine keeps taking steps (each of its blocking calls
\* returns: block timeout, HTTP timeout, end of sleep) and main, once it has
\* called Stop, goes on to cancel().
TerminationNext ==
    \/ AcceptedWebhook(FALSE)
    \/ TargetFails
    \/ TargetRecovers
    \/ ConsumerMove
    \/ ConsumerStop
    \/ ContextCancel

TerminationSpec ==
    /\ Init
    /\ [][TerminationNext]_vars
    /\ WF_vars(ConsumerMove)
    /\ WF_vars(ContextCancel)

\* Replay requests racing for one dead-letter entry: one webhook, a client
\* whose Redis calls all succeed, and one replay request more than in Spec,
\* so that two requests can be in flight for the same entry.
FirstWebhook == stream = <<>> /\ AcceptedWebhook(FALSE)

ReplayRaceNext ==
    \/ FirstWebhook
    \/ ConsumerStep
    \/ \E d \in dlq : ReplayBegin(d, MaxReplays + 1, MaxLog)
    \/ \E rp \in replays : ReplayAdd(rp, FALSE)
    \/ \E rp \in replays : ReplayDelete(rp, FALSE)

ReplayRaceSpec == Init /\ [][ReplayRaceNext]_vars

\* The client processing messages while its retry configuration is updated
\* over HTTP. The configuration loaded at start is one that validate
\* accepted: MAX_RETRIES of RetryLimits, the default delay and multiplier.
RetryConfigInit ==
    /\ PipelineInit
    /\ callIn = "none"
    /\ callPc = "serving"
    /\ callOut = [RetryDelay |-> DefaultRetryDelay,
                  RetryMultiplier |-> [num |-> 2, den |-> 1]]

RetryConfigNext ==
    \/ AcceptedWebhook(FALSE)
    \/ ConsumerStep
    \/ \E method \in {"PUT", "GET"}, req \in RetryConfigRequests :
            HandleUpdateRetryConfig(method, req)

RetryConfigSpec == RetryConfigInit /\ [][RetryConfigNext]_vars

\* The stream key from the creation of the group by initConsumerGroup on,
\* with appends, reads, acknowledgements and the passing of time in any
\* order, for every MESSAGE_TTL up to MaxWait time units.
ExpiryInit ==
    /\ Standalone
    /\ callIn \in [ttl : 1..MaxWait]
    /\ callPc = "expiry"
    /\ callOut = [expires |-> 0, group |-> TRUE, accepted |-> {}, settled |-> {}]

ExpiryNext ==
    \/ ExpiryAdd
    \/ ExpiryRead
    \/ \E id \in LogIds : ExpiryAck(id)
    \/ ExpiryTick

ExpirySpec == ExpiryInit /\ [][ExpiryNext]_vars

\* The consumer reading a stream to which the relay server and another
\* client of the Redis server both append.
SkipNext ==
    \/ AcceptedWebhook(FALSE)
    \/ ForeignAdd
    \/ ConsumerStep

SkipSpec == Init /\ [][SkipNext]_vars

\* ---------------------------------------------------------------------
\* Properties
\* ---------------------------------------------------------------------
InLog(i) == i \in DOMAIN stream

\* acknowledged after a successful forward
Delivered(i) == i \in ackedOk

\* present in the dead-letter stream
InDLQ(i) == \E d \in dlq : d.original_id = i

\* C1 - at-least-once delivery: under fair scheduling of the consumer every
\* Relay Message appended to the main stream is eventually acknowledged
\* after a successful forward, or is in the dead-letter stream with
\* retry_count equal to max_retries.
C1_AtLeastOnce ==
    \A i \in LogIds :
        [](InLog(i) =>
            <>(\/ Delivered(i)
               \/ \E d \in dlq : d.original_id = i /\ d.data.retry = maxRetries))

\* C2 - dead-letter escalation after exhaustion: with max_retries = 3 and a
\* target that fails every forward attempt, every message eventually is in
\* the dead-letter stream after 3 failed forward attempts, and a message in
\* the dead-letter stream is not in the pending set of the main stream.
C2_EscalationAfterExhaustion ==
    (maxRetries = DefaultMaxRetries /\ [](target = "down")) =>
        \A i \in LogIds :
            /\ [](InLog(i) => <>(InDLQ(i) /\ fwdFail[i] = DefaultMaxRetries))
            /\ [](InDLQ(i) => i \notin pending)

\* C3 - retry re-attempt: a message whose forward attempt failed while
\* retry budget remains (the consumer sleeps the backoff delay for it) is
\* attempted again by the consumer, and if the target has recovered for
\* good the message is eventually delivered and acknowledged.
Retrying(i) == cpc = "sleep_retry" /\ cur = i
C3_RetryReattempt ==
    \A i \in LogIds :
        /\ [](Retrying(i) => <>(cpc = "forwarding" /\ cur = i))
        /\ [](Retrying(i) => (<>[](target = "up") => <>Delivered(i)))

\* C4 - retry bound: the retry_count of a Relay Message - stored in the main
\* stream, in flight in the consumer, or recorded in a dead-letter entry -
\* is at most max_retries, for every max_retries >= 0.
C4_RetryBound ==
    /\ \A i \in DOMAIN stream : stream[i].retry <= maxRetries
    /\ (cur # 0 => curRetry <= maxRetries)
    /\ \A d \in dlq : d.data.retry <= maxRetries

\* C5 - at most one terminal outcome per message: no entry of the main
\* stream is both acknowledged after a successful forward and written to
\* the dead-letter stream, and no entry gets more than one dead-letter
\* entry, replays of dead-letter entries included.
C5_OneTerminalOutcome ==
    \A i \in LogIds :
        /\ ~(Delivered(i) /\ dlqWrites[i] > 0)
        /\ dlqWrites[i] <= 1
        /\ Cardinality({d \in dlq : d.original_id = i}) <= 1

\* A webhook was dead-lettered, replayed, and its new entry delivered.
C5_Witness ==
    \E i \in DOMAIN stream, j \in DOMAIN stream :
        /\ Delivered(i)
        /\ dlqWrites[j] = 1
        /\ stream[i].mid = stream[j].mid

Rejections == {StatusBadRequest, StatusUnauthorized, StatusMethodNotAllowed}

EntriesOf(r) == {i \in DOMAIN stream : stream[i].mid = r}

WrongMethod(rq) == rq.method # "POST"

BadBody(rq) == rq.body \in {"", "unreadable"}

\* the credential of a request is valid for its route
CredentialValid(rq, keys) ==
    IF rq.path = "/webhook"
    THEN rq.key = ConfigAPIKey
    ELSE \E id \in DOMAIN keys :
            /\ keys[id].key = rq.key
            /\ keys[id].active
            /\ "/webhook/" \o keys[id].platform = rq.path

\* C7 - accepted ingestion: a 202 response carries the id of the stream
\* entry and the id of the envelope, it is written only when the entry is
\* in the stream, and the accepted request has added exactly one entry:
\* the append lengthens the stream by exactly 1.
C7_AcceptedIngestion ==
    /\ [](\A r \in ReqIds : resp[r].status = StatusAccepted =>
            /\ resp[r].message_id \in DOMAIN stream
            /\ stream[resp[r].message_id].mid = resp[r].webhook_id
            /\ EntriesOf(r) = {resp[r].message_id})
    /\ [][\A r \in ReqIds : (appended[r] = 0 /\ appended'[r] # 0) =>
            /\ Len(stream') = Len(stream) + 1
            /\ appended'[r] = Len(stream')]_vars

\* The second accepted request has been answered with its entry id.
C7_Witness ==
    \E r \in ReqIds : resp[r].status = StatusAccepted /\ resp[r].message_id = 2

\* C8 - rejected ingestion performs no append: a request with a wrong
\* method, with a credential that is not valid for the route, or with an
\* empty or unreadable body is rejected (405, 401 or 400) and leaves the
\* stream unchanged; no entry of the stream comes from a rejected request.
C8_RejectedNoAppend ==
    /\ [][nextReq' # nextReq =>
            /\ (WrongMethod(lastReq') \/ ~CredentialValid(lastReq', apiKeys)
                    \/ BadBody(lastReq')) =>
                  (stream' = stream /\ resp'[nextReq].status \in Rejections)
            /\ resp'[nextReq].status = StatusMethodNotAllowed => WrongMethod(lastReq')
            /\ resp'[nextReq].status = StatusBadRequest => BadBody(lastReq')
            /\ resp'[nextReq].status \in Rejections => stream' = stream]_vars
    /\ [](\A r \in ReqIds : resp[r].status \in Rejections =>
            appended[r] = 0 /\ EntriesOf(r) = {})

\* A request with an empty body was answered 400 after another request had
\* been appended.
C8_Witness ==
    /\ nextReq > 1
    /\ resp[nextReq - 1].status = StatusBadRequest
    /\ lastReq.body = ""
    /\ Len(stream) = 1

C11_ReplaySuccess ==
    \A rp \in replays :
        (rp.stage = "done" /\ rp.status = StatusOK) =>
            /\ rp.newId \in DOMAIN stream
            /\ stream[rp.newId] = RelayMessage(rp.mid)
            /\ ~\E d \in dlq : d.id = rp.dlqId

\* ---------------------------------------------------------------------
\* Properties of the forward request
\* ---------------------------------------------------------------------
RequestBuilt == callPc \in {"send", "returned", "handled"}

\* The hop-by-hop header names; header names are case-insensitive
HopByHopNames == {"Connection", "Keep-Alive", "Proxy-Authenticate",
                  "Proxy-Authorization", "TE", "Trailers",
                  "Transfer-Encoding", "Upgrade"}

IsHopByHop(n) ==
    \E h \in HopByHopNames :
        CanonicalMIMEHeaderKey(h) = CanonicalMIMEHeaderKey(n)

\* The headers the relay sets itself on the forward request
RelaySet(webhook) ==
    {"X-Relay-Webhook-Id", "X-Relay-Timestamp"} \cup
        (IF webhook.signature # "" THEN {"X-Relay-Signature"} ELSE {})

\* C12 as stated - no hop-by-hop header of the ingested request is on the
\* forward request, and every other captured header is copied.
C12_HeaderFiltering_AsStated ==
    RequestBuilt =>
        \A n \in callIn.sent :
            LET k == CanonicalMIMEHeaderKey(n)
                out == callOut.request.header
            IN  IF IsHopByHop(n)
                THEN k \notin DOMAIN out
                ELSE k \in DOMAIN out /\ out[k] = SentValue(n)

\* C12 amended - no hop-by-hop header of the ingested request is on the
\* forward request, and every other captured header is copied, except the
\* headers the relay sets itself (X-Relay-Webhook-ID, X-Relay-Timestamp and,
\* for an envelope with a signature, X-Relay-Signature).
C12_HeaderFiltering ==
    RequestBuilt =>
        \A n \in callIn.sent :
            LET k == CanonicalMIMEHeaderKey(n)
                out == callOut.request.header
            IN  IF IsHopByHop(n)
                THEN k \notin DOMAIN out
                ELSE k \in RelaySet(callOut.message.webhook) \/
                     (k \in DOMAIN out /\ out[k] = SentValue(n))

\* A request sent with hop-by-hop headers in two spellings, an ordinary
\* header and a relay header of its own has been turned into a forward
\* request.
C12_Witness ==
    /\ callPc = "send"
    /\ callIn.sent = {"connection", "TE", "Content-Type", "x-relay-webhook-id"}
    /\ DOMAIN callOut.request.header =
           {"Content-Type", "X-Relay-Webhook-Id", "X-Relay-Timestamp"}

\* C13 - on every forward request X-Relay-Webhook-ID is the envelope's id,
\* X-Relay-Timestamp its reception time, and X-Relay-Signature is present
\* exactly when the envelope has a non-empty signature and then equals it,
\* whatever headers the sender supplied.
C13_ProvenanceHeaders ==
    RequestBuilt =>
        LET out == callOut.request.header
            webhook == callOut.message.webhook
        IN  /\ "X-Relay-Webhook-Id" \in DOMAIN out
            /\ out["X-Relay-Webhook-Id"] = webhook.id
            /\ "X-Relay-Timestamp" \in DOMAIN out
            /\ out["X-Relay-Timestamp"] = ToString(callIn.now.sec)
            /\ ("X-Relay-Signature" \in DOMAIN out) <=> (webhook.signature # "")
            /\ webhook.signature # "" =>
                   out["X-Relay-Signature"] = webhook.signature

\* C14 - a forward attempt succeeds exactly when a response with a status
\* in 200..299 was received; every failure, and only a failure, leads to
\* the retry/escalate decision instead of the acknowledgement.
C14_OutcomeClassification ==
    LET success == /\ callOut.outcome.kind = "response"
                   /\ callOut.outcome.status \in 200..299
    IN  /\ callPc \in {"returned", "handled"} => (callOut.err <=> ~success)
        /\ callPc = "handled" =>
               /\ (callOut.next = "handleForwardError") <=> ~success
               /\ (callOut.next = "AcknowledgeMessage") <=> success

\* The local endpoint answered 300 and the message went to the retry
\* decision.
C14_Witness ==
    /\ callPc = "handled"
    /\ callOut.outcome = [kind |-> "response", status |-> 300]
    /\ callOut.next = "handleForwardError"

\* C15 - the forward request goes to the target override of the Relay
\* Message when it carries one, and to the configured default otherwise.
C15_TargetResolution ==
    RequestBuilt =>
        callOut.request.url =
            IF callOut.message.target_endpoint # ""
            THEN callOut.message.target_endpoint
            ELSE LocalWebhookURL

\* C16 - the forward request uses the envelope's HTTP method when one is
\* set, and POST otherwise.
C16_ForwardMethod ==
    RequestBuilt =>
        callOut.request.method =
            IF callOut.message.webhook.http_method # ""
            THEN callOut.message.webhook.http_method
            ELSE "POST"

\* ---------------------------------------------------------------------
\* Properties of the backoff delay
\* ---------------------------------------------------------------------
RECURSIVE Pow(_, _)
Pow(b, e) == IF e = 0 THEN 1 ELSE b * Pow(b, e - 1)

\* C17 - the retry delay is a function of the number of failures so far: the
\* initial delay for the first retry, multiplied once more by the
\* multiplier for each later one; with 1000 ms and 2.0 the delays of
\* retries 1, 2, 3 are 1000, 2000, 4000 ms.
C17_BackoffSequence ==
    callPc = "sleep" =>
        LET n == callIn.retryCount
            m == callIn.multiplier
            d == callOut.delay
            \* d * den^(n-1) = initial delay * num^(n-1), in ms and ns
            scaledNs == d.ns * Pow(m.den, n - 1)
        IN  /\ d.ms * Pow(m.den, n - 1) + scaledNs \div Millisecond
                   = callIn.retryDelay * Pow(m.num, n - 1)
            /\ scaledNs % Millisecond = 0
            /\ (callIn.retryDelay = 1000 /\ m = [num |-> 2, den |-> 1]) =>
                   /\ n = 1 => d = [ms |-> 1000, ns |-> 0]
                   /\ n = 2 => d = [ms |-> 2000, ns |-> 0]
                   /\ n = 3 => d = [ms |-> 4000, ns |-> 0]

\* The third failure with the default configuration waits 4000 ms.
C17_Witness ==
    /\ callPc = "sleep"
    /\ callIn = [retryDelay |-> 1000, multiplier |-> [num |-> 2, den |-> 1],
                 retryCount |-> 3]
    /\ callOut.delay = [ms |-> 4000, ns |-> 0]

\* ---------------------------------------------------------------------
\* Properties of the serialized form
\* ---------------------------------------------------------------------

\* C18 - parsing the entry that AddWebhook writes for a Relay Message gives
\* back the same payload bytes and the same header mapping.
C18_EnvelopeRoundTrip ==
    callPc = "parsed" =>
        /\ callOut.parsed.webhook.body = callIn.body
        /\ callOut.parsed.webhook.headers = CodecWebhook(callIn).headers

\* ---------------------------------------------------------------------
\* Properties of the stream calls
\* ---------------------------------------------------------------------

NotGiven(key) == callIn[key] \in {Unset, ""}

\* A validation rule is violated by the environment. A required name or
\* URL is never empty: an empty variable counts as unset and gets its
\* default, and only API_KEY has an empty default.
RuleViolated ==
    \/ NotGiven("API_KEY")
    \/ callIn.RETRY_MULTIPLIER \in {"-1", "0"}
    \/ callIn.MAX_RETRIES = "-1"
    \/ callIn.RETRY_DELAY = "-1"
    \/ callIn.MESSAGE_TTL \in {"-1", "0"}

Escalates == cpc = "forwarding" /\ cpc' = "dlq_add"
Retries == cpc = "forwarding" /\ cpc' = "sleep_retry"

\* C21 - retried counter: webhooks_retried counts the retry attempts: it is
\* incremented once by a forward failure that leads to a retry, not by a
\* forward failure that leads to the dead-letter queue, and by nothing else.
C21_RetriedCounter ==
    [][/\ Retries => retried' = retried + 1
       /\ Escalates => retried' = retried
       /\ ~(Retries \/ Escalates) => retried' = retried]_vars

\* C22 - retry/escalate decision: a forward failure of a message whose
\* retry count (the number of its attempts that failed before) is r sends
\* the message to the dead-letter queue if and only if r >= max_retries;
\* otherwise the counter is incremented and the consumer sleeps the delay.
C22_RetryDecision ==
    [][(Retries \/ Escalates) =>
          /\ Escalates <=> curRetry >= maxRetries
          /\ Retries => curRetry' = curRetry + 1]_vars

\* MoveToDeadLetterQueue has issued its XADD for entry i and not yet its XACK
Escalating(i) == cpc = "dlq_ack" /\ cur = i

\* C23 - escalation is a single transition: the dead-letter entry is written
\* and the original entry acknowledged together, so in no reachable state,
\* a failed acknowledgement included, a message has a dead-letter entry
\* while its original entry is in the pending set of the main stream. The
\* moment between the two Redis commands of one call is left out, so that
\* what is examined is the state the call leaves behind.
C23_EscalationSingleTransition ==
    \A d \in dlq :
        ~Escalating(d.original_id) => d.original_id \notin pending

\* Entry i is live in the main stream: appended and not yet acknowledged
\* (not yet delivered to the group, or in its pending entries list)
Live(i) == InLog(i) /\ (i > lastDelivered \/ i \in pending)

\* C24 - retry counter accuracy: the retry counter of every Relay Message
\* record live in the main stream equals the number of forward attempts of
\* that message that have failed so far. For the message in the hands of
\* the consumer the counter read is the one of its in-memory copy, which is
\* where handleForwardError counts.
C24_RetryCounterAccuracy ==
    \A i \in LogIds :
        Live(i) => IF cur = i THEN curRetry = fwdFail[i]
                              ELSE stream[i].retry = fwdFail[i]

\* C25 - cancellation at suspension points: the blocking log read, the
\* forward call and the retry backoff sleep each observe the cancellation
\* signal: once cancellation is requested while the consumer is suspended
\* at one of them, the call returns without waiting for its normal
\* completion.
C25_CancellationObserved ==
    (callPc = "suspended" /\ callOut.ctxDone) =>
        CanLeave(callIn.point, callOut.elapsed, callIn.wait, TRUE)

\* Entry i has been read from the stream by the consumer (delivered to the
\* group and put on its pending entries list)
Claimed(i) == InLog(i) /\ i <= lastDelivered

\* A forward attempt of entry i has returned, with success or with failure
AttemptCompleted(i) == fwdOk[i] + fwdFail[i] > 0

\* C26 - no read-ahead: the consumer does not read (claim) message N+1 from
\* the stream until the forward attempt of message N has completed or
\* timed out.
C26_NoReadAhead ==
    \A i \in LogIds :
        Claimed(i) => \A j \in 1..(i - 1) : AttemptCompleted(j)

\* The consumer is acknowledging or dead-lettering the message in its hands
Settling == cpc \in {"acking", "dlq_add", "dlq_ack"}

\* C27 - serialized delivery: in every reachable state the consumer has at
\* most one forward attempt in flight, and the forward attempt of one
\* message never overlaps the forward attempt, the acknowledgement or the
\* escalation of another.
C27_SerializedDelivery ==
    /\ Cardinality(inflight) <= 1
    /\ inflight # {} => cpc = "forwarding" /\ inflight = {cur}
    /\ Settling => inflight = {}

\* The second message of a batch is being forwarded after the attempt of
\* the first has returned.
C27_Witness ==
    /\ inflight = {2}
    /\ fwdOk[1] + fwdFail[1] > 0
    /\ batch = <<>>

\* processMessage hands entry i to the forwarder for the first time
FirstAttemptStarts(i) ==
    /\ cpc = "batch" /\ cpc' = "forwarding" /\ cur' = i
    /\ ~AttemptCompleted(i)

\* C28 - no reordering: forward attempts are made in the order in which the
\* stream delivered the messages: when the first forward attempt of a
\* message B starts, the first forward attempt of every message A that the
\* stream delivered before B has been made. The group is read with ">",
\* which delivers the entries in ascending id order, so A was delivered
\* before B exactly when A < B.
C28_NoReordering ==
    [][\A b \in LogIds :
          FirstAttemptStarts(b) => \A a \in 1..(b - 1) : AttemptCompleted(a)]_vars

\* Message 2 is being forwarded after the attempt of message 1, delivered
\* before it, has failed and left message 1 pending.
C28_Witness ==
    /\ cpc = "forwarding" /\ cur = 2
    /\ fwdFail[1] > 0
    /\ 1 \in pending

\* ReadMessages has just returned an error to consumeMessages
ReadFails == cpc = "reading" /\ cpc' = "sleep_read"

\* What a read failure must leave alone: the stored messages and their
\* counters, the acknowledgements, the dead-letter stream, the metrics and
\* the consumer's running flag
messageState == <<stream, lastDelivered, pending, dlq, dlqSeq, dlqWrites,
                  curRetry, processed, retried, failed, fwdOk, fwdFail,
                  ackedOk, running>>

\* C29 - read failure handling: when a read of the stream fails the
\* consumer keeps running, backs off and then reads again, and the failure
\* changes no message's state: no retry counter and no retried or failed
\* metric is incremented, nothing is acknowledged, nothing is dead-lettered.
C29_ReadFailureHandling ==
    [][/\ ReadFails => UNCHANGED messageState
       /\ (cpc = "sleep_read" /\ cpc' # cpc) =>
              cpc' = "loop" /\ running' /\ UNCHANGED messageState
       /\ (cpc = "loop" /\ running /\ ~cancelled /\ cpc' # cpc) =>
              cpc' = "reading"]_vars

\* A read has failed while one message is pending after a failed forward
\* and another waits in the stream undelivered.
C29_Witness ==
    /\ cpc = "sleep_read"
    /\ \E i \in pending : fwdFail[i] > 0
    /\ Len(stream) > lastDelivered

\* Entry i was delivered to the group and is no longer on its pending list
Acknowledged(i) == Claimed(i) /\ i \notin pending

Exited == cpc = "exited"

\* C31 - no abandoned claims on stop: every message the consumer has
\* claimed from the stream in a batch gets a forward attempt before the
\* consumer exits; stopping the consumer (Stop or cancellation, in any
\* interleaving with a read) leaves no claimed but never-attempted message
\* in the pending set.
C31_NoAbandonedClaims ==
    Exited => \A i \in pending : AttemptCompleted(i)

\* The Forward call outstanding returns an error for no other reason than
\* the cancelled context: the local endpoint itself answers 2xx
FailsByCancellation ==
    /\ cpc = "forwarding" /\ cpc' # cpc
    /\ cancelled /\ target = "up"

\* C32 - shutdown is not a delivery failure: a forward attempt that fails
\* only because the cancellation signal was raised does not increment the
\* retry counter or the retried and failed metrics and never leads to a
\* dead-letter escalation.
C32_ShutdownNotFailure ==
    [][FailsByCancellation =>
          /\ curRetry' = curRetry
          /\ retried' = retried
          /\ failed' = failed
          /\ cpc' # "dlq_add"]_vars

AcknowledgedAfterSuccess == {i \in LogIds : Acknowledged(i) /\ fwdOk[i] > 0}

AppendsFor(id) == {rp \in replays : rp.dlqId = id /\ rp.newId # 0}

\* C35 - replay appends at most once: replaying a dead-letter entry appends
\* at most one new Relay Message to the main stream, even when two replay
\* requests for the same entry run concurrently.
C35_ReplayAppendsOnce ==
    \A id \in 1..dlqSeq : Cardinality(AppendsFor(id)) <= 1

\* The dead-letter entry a replay request was made for is in the
\* dead-letter stream
InDLQStore(rp) == \E d \in dlq : d.id = rp.dlqId

\* A copy of that entry's message appended by a replay is in the main stream
ReplayedToLog(rp) ==
    \E rq \in replays :
        /\ rq.dlqId = rp.dlqId
        /\ rq.newId \in DOMAIN stream
        /\ stream[rq.newId].mid = rp.mid

\* C36 - replay never loses a message: at every point of a replay, also
\* when the append to the main stream fails or the delete from the
\* dead-letter stream fails, the message is in the dead-letter stream or in
\* the main stream.
C36_ReplayNeverLoses ==
    \A rp \in replays : InDLQStore(rp) \/ ReplayedToLog(rp)

\* A replay was answered 500 after its append had failed: the entry is
\* still in the dead-letter stream and no copy was appended.
C36_Witness ==
    \E rp \in replays :
        /\ rp.stage = "done" /\ rp.status = StatusInternalServerError
        /\ InDLQStore(rp)
        /\ ~ReplayedToLog(rp)

\* C37 - retry policy stays valid at runtime: the constraints enforced when
\* the configuration is loaded (max_retries >= 0, retry_delay >= 0,
\* retry_multiplier > 0) hold in every reachable state of the client, also
\* after any sequence of runtime retry-configuration updates interleaved
\* with message processing.
C37_RetryPolicyValid ==
    /\ maxRetries >= 0
    /\ callOut.RetryDelay >= 0
    /\ callOut.RetryMultiplier.num > 0

\* C38 - TTL does not drop undelivered messages: the expiry AddWebhook sets
\* on the whole stream key at every append never makes a message that was
\* accepted and is not yet acknowledged or dead-lettered disappear from
\* the main stream, and never removes the consumer group the consumer
\* reads through.
C38_TTLKeepsUndelivered ==
    /\ \A m \in callOut.accepted \ callOut.settled :
            \E i \in DOMAIN stream : stream[i].mid = m
    /\ callOut.group

\* The range loop of consumeMessages takes an entry that cannot be parsed
SkipsUnparseable ==
    /\ cpc = "batch" /\ batch # <<>> /\ running
    /\ ParseFails(stream[Head(batch)])
    /\ batch' # batch

\* C39 - unparseable entries are skipped: a stream entry whose payload
\* cannot be parsed into a Relay Message gets no forward attempt and is
\* neither acknowledged nor written to the dead-letter stream (it stays
\* pending), and the remaining entries of the same batch are still
\* processed.
C39_UnparseableSkipped ==
    /\ [](\A i \in DOMAIN stream :
            ParseFails(stream[i]) =>
                /\ ~AttemptCompleted(i) /\ i \notin inflight
                /\ dlqWrites[i] = 0 /\ ~InDLQ(i)
                /\ Claimed(i) => i \in pending)
    /\ [][SkipsUnparseable =>
            /\ batch' = Tail(batch)
            /\ cpc' = "batch"
            /\ UNCHANGED <<pending, dlq, fwdOk, fwdFail, processed, retried,
                           failed>>]_vars

\* The entry after an unparseable one is being forwarded while the
\* unparseable entry, delivered to the group, is pending.
C39_Witness ==
    /\ 2 \in DOMAIN stream /\ ParseFails(stream[1])
    /\ 1 \in pending
    /\ cpc = "forwarding" /\ cur = 2

====
